---- MODULE Spec2Model ----
(***************************************************************************)
(* A model of tidwall/bfile: the growable Pager of src/bfile.go and the    *)
(* fixed-size File of the code in src/README.md.                           *)
(*                                                                         *)
(* Byte slices are kept run-length encoded: a sequence of <<count, value>> *)
(* runs, no run empty and no two neighbouring runs of the same value, so   *)
(* that equal slices are equal values and pages of 8192 bytes stay small.  *)
(***************************************************************************)
EXTENDS Integers, Sequences, FiniteSets, TLC

\* ------------------------------------------------------------------------
\* Program constants (src/bfile.go:12-18, src/README.md:75-81)
\* ------------------------------------------------------------------------
defaultPageSize == 4096
defaultBufferSize == 8388608
minPages == 4
pagesPerShard == 32
maxShards == 128
pageSize == 8192

\* ------------------------------------------------------------------------
\* Bounds of the model
\* ------------------------------------------------------------------------
\* operations performed on one pager in the sequential specifications
MaxOps == 5

\* ------------------------------------------------------------------------
\* Encodings
\* ------------------------------------------------------------------------
\* Go's nil page pointer; a shard's nodes are numbered from 1
NIL == 0
\* s.head and s.tail, the two sentinels allocated by shard.init
HEAD == 1
TAIL == 2
\* what a caller's buffer holds before the pager touches it
Untouched == -1

Min(a, b) == IF a < b THEN a ELSE b
Max(a, b) == IF a > b THEN a ELSE b

\* ------------------------------------------------------------------------
\* Byte slices
\* ------------------------------------------------------------------------
\* make([]byte, n) filled with v
Rep(n, v) == IF n <= 0 THEN <<>> ELSE << <<n, v>> >>

RECURSIVE ALen(_)
\* len(a)
ALen(a) == IF a = <<>> THEN 0 ELSE a[1][1] + ALen(Tail(a))

\* a followed by b
Cat(a, b) ==
  IF a = <<>> THEN b
  ELSE IF b = <<>> THEN a
  ELSE IF a[Len(a)][2] = b[1][2]
       THEN SubSeq(a, 1, Len(a) - 1)
              \o << <<a[Len(a)][1] + b[1][1], b[1][2]>> >>
              \o Tail(b)
       ELSE a \o b

RECURSIVE Take(_, _)
\* a[:n], for n <= len(a)
Take(a, n) ==
  IF n <= 0 \/ a = <<>> THEN <<>>
  ELSE IF a[1][1] <= n THEN <<a[1]>> \o Take(Tail(a), n - a[1][1])
  ELSE << <<n, a[1][2]>> >>

RECURSIVE Drop(_, _)
\* a[n:], for n <= len(a)
Drop(a, n) ==
  IF n <= 0 \/ a = <<>> THEN a
  ELSE IF a[1][1] <= n THEN Drop(Tail(a), n - a[1][1])
  ELSE << <<a[1][1] - n, a[1][2]>> >> \o Tail(a)

\* a[lo:hi]
Slice(a, lo, hi) == Take(Drop(a, lo), hi - lo)

\* Go's copy(dst[at:], src): min(len(src), len(dst) - at) bytes are copied
Copy(dst, at, src) ==
  LET n == Min(ALen(src), ALen(dst) - at)
  IN  Cat(Cat(Take(dst, at), Take(src, n)), Drop(dst, at + n))

RECURSIVE BitAnd(_, _)
\* a & b, for a, b >= 0
BitAnd(a, b) ==
  IF a = 0 \/ b = 0 THEN 0
  ELSE (a % 2) * (b % 2) + 2 * BitAnd(a \div 2, b \div 2)

\* ------------------------------------------------------------------------
\* The backing os.File: its bytes, and the calls the pager makes on it
\* ------------------------------------------------------------------------
\* os.File.WriteAt(data, off): a write past the end fills the gap with zeros;
\* an empty write changes nothing
OsWriteAt(fl, data, off) ==
  IF ALen(data) = 0 THEN fl
  ELSE LET padded == IF ALen(fl) < off
                     THEN Cat(fl, Rep(off - ALen(fl), 0)) ELSE fl
       IN  Cat(Cat(Take(padded, off), data), Drop(padded, off + ALen(data)))

\* os.File.ReadAt(data, off): the bytes read replace a prefix of data; a short
\* read (io.EOF) leaves the rest of data as it was
OsReadAt(fl, data, off) ==
  Copy(data, 0, Slice(fl, off, off + ALen(data)))

\* os.File.Truncate(n)
OsTruncate(fl, n) ==
  IF n <= ALen(fl) THEN Take(fl, n) ELSE Cat(fl, Rep(n - ALen(fl), 0))

\* ------------------------------------------------------------------------
\* NewPagerSize / newFile: page size, shard count and per-shard quota
\* ------------------------------------------------------------------------
RECURSIVE Pow2From(_, _)
\* for x < n { x *= 2 }
Pow2From(x, n) == IF x < n THEN Pow2From(2 * x, n) ELSE x

\* the page size NewPagerSize settles on
PagerPageSize(ps) ==
  IF ps <= 0 THEN defaultPageSize
  ELSE IF BitAnd(ps, 4095) # 0 THEN Pow2From(1, ps)
  ELSE ps

\* the buffer size NewPagerSize settles on
PagerBufferSize(bs, pgsz) ==
  IF bs <= 0 THEN defaultBufferSize
  ELSE IF bs < pgsz THEN pgsz
  ELSE bs

\* a quota that rounds bufferSize / pgsize up instead of down
TotalPagesCeil(bs, pgsz) ==
  IF (bs + pgsz - 1) \div pgsz < minPages THEN minPages
  ELSE (bs + pgsz - 1) \div pgsz

\* the max number of pages across all shards
TotalPages(bs, pgsz) ==
  IF bs \div pgsz < minPages THEN minPages ELSE bs \div pgsz

\* how many shards are needed, a power of 2
NumShards(total) ==
  LET c == (total + pagesPerShard - 1) \div pagesPerShard
  IN  Pow2From(1, IF c > maxShards THEN maxShards ELSE c)

\* the max number of pages per shard
ShardPages(total) == total \div NumShards(total)

\* ------------------------------------------------------------------------
\* Shards: the page map, the dirty set and the LRU list
\* ------------------------------------------------------------------------
NoPages == [k \in {} |-> NIL]

\* a shard of make([]shard, nshards): s.pages == nil
NewShard == [init |-> FALSE, pages |-> NoPages, dirty |-> {}, nodes |-> <<>>]

\* shard.init
ShardInit(s) ==
  IF s.init THEN s
  ELSE [init  |-> TRUE,
        pages |-> NoPages,
        dirty |-> {},
        nodes |-> << [num |-> 0, prev |-> NIL, next |-> TAIL, data |-> <<>>],
                     [num |-> 0, prev |-> HEAD, next |-> NIL, data |-> <<>>] >>]

\* a push that leaves out s.head.next.prev = p
PushNoPrev(nodes, p) ==
  LET n2 == [nodes EXCEPT ![p].next = nodes[HEAD].next]
      n3 == [n2 EXCEPT ![p].prev = HEAD]
  IN  [n3 EXCEPT ![HEAD].next = p]

\* shard.push, on the nodes of the shard
Push(nodes, p) ==
  LET n1 == [nodes EXCEPT ![nodes[HEAD].next].prev = p]
      n2 == [n1 EXCEPT ![p].next = n1[HEAD].next]
      n3 == [n2 EXCEPT ![p].prev = HEAD]
  IN  [n3 EXCEPT ![HEAD].next = p]

\* shard.pop
Pop(nodes, p) ==
  LET n1 == [nodes EXCEPT ![nodes[p].prev].next = nodes[p].next]
  IN  [n1 EXCEPT ![n1[p].next].prev = n1[p].prev]

\* a bump that leaves the page where it is in the list
BumpStays(nodes, p) == nodes

\* shard.bump
Bump(nodes, p) == Push(Pop(nodes, p), p)

\* the shard of page pnum: pnum & (len(f.shards) - 1)
ShardOf(pnum, nshards) == BitAnd(pnum, nshards - 1)

\* delete(m, k) on a map
MapDelete(m, k) == [x \in (DOMAIN m) \ {k} |-> m[x]]

\* m[k] = v on a map
MapSet(m, k, v) == [x \in (DOMAIN m) \cup {k} |-> IF x = k THEN v ELSE m[x]]

\* ------------------------------------------------------------------------
\* Pager.write and Pager.read of one page
\* ------------------------------------------------------------------------
\* the length Pager.write slices the page to: p.data[:end]
WriteEnd(num, sz, pgsz) ==
  IF num * pgsz + pgsz > sz THEN sz - num * pgsz ELSE pgsz

\* the offset from which the WriteAt of a backing file that is full fails
FullFrom == 4

\* f.file.WriteAt at off fails: always when the fault is "WriteAt", and from
\* FullFrom on when it is "WriteAtFull"
WriteFails(flt, off) ==
  flt = "WriteAt" \/ (flt = "WriteAtFull" /\ off >= FullFrom)

\* Pager.write on a file whose call flt fails: a negative end makes
\* p.data[:end] panic; a WriteAt that fails writes nothing
PageWrite(fl, flt, sz, pgsz, num, data) ==
  LET end == WriteEnd(num, sz, pgsz)
  IN  IF end < 0 THEN [file |-> fl, err |-> "panic"]
      ELSE IF WriteFails(flt, num * pgsz) THEN [file |-> fl, err |-> "io"]
      ELSE [file |-> OsWriteAt(fl, Take(data, end), num * pgsz),
            err  |-> "nil"]

\* Pager.read: io.EOF is not an error; a ReadAt that fails reads nothing
PageRead(fl, flt, pgsz, num, data) ==
  IF flt = "ReadAt" THEN [data |-> data, err |-> "io"]
  ELSE [data |-> OsReadAt(fl, data, num * pgsz), err |-> "nil"]

\* ------------------------------------------------------------------------
\* Pager.pio: one page's worth of a read or a write, under the shard's mutex
\* ------------------------------------------------------------------------
\* the end of pio: copy between b and p.data[pstart:pend], mark dirty
PioCopy(s, fl, p, b, pnum, pstart, pend, write, calls) ==
  IF write
  THEN [shard |-> [s EXCEPT !.nodes[p].data = Copy(@, pstart, Take(b, pend - pstart)),
                            !.dirty = @ \cup {pnum}],
        file |-> fl, n |-> ALen(b), err |-> "nil", b |-> b, calls |-> calls]
  ELSE [shard |-> s,
        file |-> fl, n |-> ALen(b), err |-> "nil",
        b |-> Copy(b, 0, Slice(s.nodes[p].data, pstart, pend)), calls |-> calls]

\* a load that reads the page from the file whatever the operation is
PioLoadAlwaysReads(s, fl, flt, pgsz, p, pnum, pstart, pend, write, calls) ==
  LET rd     == PageRead(fl, flt, pgsz, pnum, s.nodes[p].data)
      n1     == [s.nodes EXCEPT ![p].num = pnum, ![p].data = rd.data]
      calls1 == Append(calls, "ReadAt")
  IN  IF rd.err # "nil"
      THEN [shard |-> [s EXCEPT !.nodes = n1], file |-> fl, err |-> rd.err,
            calls |-> calls1, p |-> NIL]
      ELSE [shard |-> [s EXCEPT !.nodes = Push(n1, p),
                                !.pages = MapSet(@, pnum, p)],
            file |-> fl, err |-> "nil", calls |-> calls1, p |-> p]

\* the page p acquired on a miss: number it, read it from the file unless the
\* whole page is being written, add it to the map and the list
PioLoad(s, fl, flt, pgsz, p, pnum, pstart, pend, write, calls) ==
  LET doRead == ~write \/ pend - pstart < pgsz
      rd     == IF doRead THEN PageRead(fl, flt, pgsz, pnum, s.nodes[p].data)
                ELSE [data |-> s.nodes[p].data, err |-> "nil"]
      n1     == [s.nodes EXCEPT ![p].num = pnum, ![p].data = rd.data]
      calls1 == IF doRead THEN Append(calls, "ReadAt") ELSE calls
  IN  IF rd.err # "nil"
      THEN [shard |-> [s EXCEPT !.nodes = n1], file |-> fl, err |-> rd.err,
            calls |-> calls1, p |-> NIL]
      ELSE [shard |-> [s EXCEPT !.nodes = Push(n1, p),
                                !.pages = MapSet(@, pnum, p)],
            file |-> fl, err |-> "nil", calls |-> calls1, p |-> p]

\* a miss in a full shard: evict the lru page and hang on to it
PioEvict(s, fl, flt, sz, pgsz, pnum, pstart, pend, write) ==
  LET p      == s.nodes[TAIL].prev
      vnum   == s.nodes[p].num
      s1     == [s EXCEPT !.nodes = Pop(@, p), !.pages = MapDelete(@, vnum)]
      isDirty == vnum \in s.dirty
      w      == IF isDirty
                THEN PageWrite(fl, flt, sz, pgsz, vnum, s.nodes[p].data)
                ELSE [file |-> fl, err |-> "nil"]
      calls  == IF isDirty /\ w.err # "panic" THEN <<"WriteAt">> ELSE <<>>
  IN  IF w.err # "nil"
      THEN [shard |-> s1, file |-> w.file, err |-> w.err, calls |-> calls,
            p |-> NIL]
      ELSE LET s2 == [s1 EXCEPT !.dirty = @ \ {vnum}]
               s3 == IF write /\ pend - pstart < pgsz
                     THEN [s2 EXCEPT !.nodes[p].data = Rep(ALen(@), 0)]
                     ELSE s2
           IN  PioLoad(s3, w.file, flt, pgsz, p, pnum, pstart, pend, write,
                       calls)

\* a miss in a shard with room: allocate an entirely new page
PioAlloc(s, fl, flt, pgsz, pnum, pstart, pend, write) ==
  LET p  == Len(s.nodes) + 1
      s1 == [s EXCEPT !.nodes = Append(@, [num |-> 0, prev |-> NIL, next |-> NIL,
                                           data |-> Rep(pgsz, 0)])]
  IN  PioLoad(s1, fl, flt, pgsz, p, pnum, pstart, pend, write, <<>>)

\* pio up to its copy, on the shard once s.init() is done: the page p of
\* number pnum, bumped if it was in memory, acquired if not
PioFind(s, fl, flt, sz, pgsz, pgmx, pnum, pstart, pend, write) ==
  IF pnum \in DOMAIN s.pages
  THEN [shard |-> [s EXCEPT !.nodes = Bump(@, s.pages[pnum])], file |-> fl,
        err |-> "nil", calls |-> <<>>, p |-> s.pages[pnum]]
  ELSE IF Cardinality(DOMAIN s.pages) = pgmx
  THEN PioEvict(s, fl, flt, sz, pgsz, pnum, pstart, pend, write)
  ELSE PioAlloc(s, fl, flt, pgsz, pnum, pstart, pend, write)

\* pio from s.init() up to its copy
PioPage(s0, fl, flt, sz, pgsz, pgmx, pnum, pstart, pend, write) ==
  PioFind(ShardInit(s0), fl, flt, sz, pgsz, pgmx, pnum, pstart, pend, write)

\* the rest of pio once the page is found as f says: the error of the
\* eviction or of the load, or the copy
PioDone(f, b, pnum, pstart, pend, write) ==
  IF f.err # "nil"
  THEN [shard |-> f.shard, file |-> f.file, n |-> 0, err |-> f.err, b |-> b,
        calls |-> f.calls]
  ELSE PioCopy(f.shard, f.file, f.p, b, pnum, pstart, pend, write, f.calls)

\* a pio that allocates a new page on every miss, whether the shard is full
\* or not
PioNeverEvicts(s0, fl, flt, sz, pgsz, pgmx, b, pnum, pstart, pend, write) ==
  PioDone(PioFind(ShardInit(s0), fl, flt, sz, pgsz, pgmx + Len(s0.nodes) + 1,
                  pnum, pstart, pend, write),
          b, pnum, pstart, pend, write)

\* Pager.pio on shard s0 of a pager whose file holds fl and fails the call
\* flt; b is the chunk b[:pend-pstart] of the caller's buffer
Pio(s0, fl, flt, sz, pgsz, pgmx, b, pnum, pstart, pend, write) ==
  PioDone(PioPage(s0, fl, flt, sz, pgsz, pgmx, pnum, pstart, pend, write),
          b, pnum, pstart, pend, write)

\* ------------------------------------------------------------------------
\* Pager.io.  A pager is the record pg = [file, fault, size, pgsize, pgmax,
\* shards], fault being the call of the backing file that fails ("none" when
\* every call succeeds);
\* buf is the caller's slice up to its capacity and blen its length.
\* ------------------------------------------------------------------------
\* the pager and the caller's buffer after the call r of pio on shard i
IoChunkDone(pg, buf, total, i, r) ==
  [pg    |-> [pg EXCEPT !.shards[i] = r.shard, !.file = r.file],
   buf   |-> IF r.err = "nil" THEN Copy(buf, total, r.b) ELSE buf,
   n     |-> r.n,
   err   |-> r.err,
   calls |-> r.calls]

\* one chunk of the page loop of io: the call of pio for the page at off
IoChunk(pg, buf, total, remaining, off, write) ==
  LET pnum   == off \div pg.pgsize
      pstart == BitAnd(off, pg.pgsize - 1)
      pend   == Min(pstart + remaining, pg.pgsize)
      i      == ShardOf(pnum, Cardinality(DOMAIN pg.shards))
  IN  IoChunkDone(pg, buf, total, i,
                  Pio(pg.shards[i], pg.file, pg.fault, pg.size, pg.pgsize,
                      pg.pgmax, Slice(buf, total, total + pend - pstart),
                      pnum, pstart, pend, write))

RECURSIVE IoLoop(_, _, _, _, _, _, _)
RECURSIVE IoLoopAfter(_, _, _, _, _, _)
\* the rest of the loop of io after the chunk c: return its error, or go on
IoLoopAfter(c, total, remaining, off, write, calls) ==
  IF c.err # "nil"
  THEN [pg |-> c.pg, buf |-> c.buf, n |-> total, err |-> c.err,
        calls |-> calls \o c.calls]
  ELSE IoLoop(c.pg, c.buf, total + c.n, remaining - c.n, off + c.n,
              write, calls \o c.calls)

\* for len(b) > 0 { ... }: the pages of [off, off+remaining) in turn
IoLoop(pg, buf, total, remaining, off, write, calls) ==
  IF remaining <= 0
  THEN [pg |-> pg, buf |-> buf, n |-> total, err |-> "nil", calls |-> calls]
  ELSE IoLoopAfter(IoChunk(pg, buf, total, remaining, off, write),
                   total, remaining, off, write, calls)

\* what io returns after its loop returned r: if eof { return total, io.EOF }
IoReturn(eof, r) ==
  IF eof /\ r.err = "nil" THEN [r EXCEPT !.err = "EOF"] ELSE r

\* an incrSize that sets the size to end without comparing them
IncrSizeNoCompare(sz, fl, flt, end) == end

\* Pager.incrSize: the size after it; when Stat fails it returns at once
IncrSize(sz, fl, flt, end) ==
  IF sz = -1 /\ flt = "Stat" THEN sz
  ELSE LET known == IF sz = -1 THEN ALen(fl) ELSE sz
       IN  IF end > known THEN end ELSE known

\* the length io reslices a read to after incrSize: b = b[:end-start]
ReadLen(sz, start) == IF sz - start < 0 THEN 0 ELSE sz - start

\* Pager.io of the growable pager
PagerIo(pg, buf, blen, off, write) ==
  IF off < 0
  THEN [pg |-> pg, buf |-> buf, n |-> 0, err |-> "negative offset",
        calls |-> <<>>]
  ELSE LET past  == off + blen > pg.size
           pg1   == IF past
                    THEN [pg EXCEPT !.size = IncrSize(pg.size, pg.file, pg.fault,
                                                      off + blen)]
                    ELSE pg
           calls == IF past /\ pg.size = -1 THEN <<"Stat">> ELSE <<>>
           clamp == past /\ ~write
           blen1 == IF clamp THEN ReadLen(pg1.size, off) ELSE blen
       IN  IF blen1 > ALen(buf)
           THEN [pg |-> pg1, buf |-> buf, n |-> 0, err |-> "panic",
                 calls |-> calls]
           ELSE IoReturn(clamp, IoLoop(pg1, buf, 0, blen1, off, write, calls))

\* ------------------------------------------------------------------------
\* Pager.Flush
\* ------------------------------------------------------------------------
\* the orders in which a range over the map s.dirty may visit its keys
Orders(S) ==
  {f \in [1..Cardinality(S) -> S] : \A i, j \in DOMAIN f : f[i] = f[j] => i = j}

RECURSIVE FlushShardNoWrite(_, _, _, _)
\* a Flush that marks the dirty pages clean without writing them back
FlushShardNoWrite(pg, i, ord, calls) ==
  IF ord = <<>>
  THEN [pg |-> pg, err |-> "nil", calls |-> calls]
  ELSE FlushShardNoWrite([pg EXCEPT !.shards[i].dirty = @ \ {Head(ord)}],
                         i, Tail(ord), Append(calls, "WriteAt"))

RECURSIVE FlushShard(_, _, _, _)
\* the inner loop of Flush over one shard's dirty pages, visited in order ord
FlushShard(pg, i, ord, calls) ==
  IF ord = <<>>
  THEN [pg |-> pg, err |-> "nil", calls |-> calls]
  ELSE LET pnum == Head(ord)
           s    == pg.shards[i]
       IN  IF pnum \notin DOMAIN s.pages
           THEN [pg |-> pg, err |-> "panic", calls |-> calls]
           ELSE LET w == PageWrite(pg.file, pg.fault, pg.size, pg.pgsize, pnum,
                                   s.nodes[s.pages[pnum]].data)
                IN  IF w.err # "nil"
                    THEN [pg |-> pg, err |-> w.err,
                          calls |-> IF w.err = "io" THEN Append(calls, "WriteAt")
                                    ELSE calls]
                    ELSE FlushShard([pg EXCEPT !.file = w.file,
                                               !.shards[i].dirty = @ \ {pnum}],
                                    i, Tail(ord), Append(calls, "WriteAt"))

RECURSIVE FlushFrom(_, _, _, _)
\* the outer loop of Flush from shard i on; ords[i] is the order for shard i
FlushFrom(pg, i, ords, calls) ==
  IF i >= Cardinality(DOMAIN pg.shards)
  THEN [pg |-> pg, err |-> "nil", calls |-> calls]
  ELSE LET r == FlushShard(pg, i, ords[i], calls)
       IN  IF r.err # "nil" THEN r
           ELSE FlushFrom(r.pg, i + 1, ords, r.calls)

\* every way the map iterations of one Flush may go
FlushOrders(pg) ==
  {ords \in [DOMAIN pg.shards -> UNION {Orders(pg.shards[i].dirty) : i \in DOMAIN pg.shards}] :
     \A i \in DOMAIN pg.shards : ords[i] \in Orders(pg.shards[i].dirty)}

\* ------------------------------------------------------------------------
\* State
\* ------------------------------------------------------------------------
VARIABLES
  file,      \* the bytes of the backing os.File
  fault,     \* the call of the backing os.File that fails, "none" if none
  osclosed,  \* the os.File has been closed
  size,      \* f.size: the logical size, -1 while unknown
  pgsize,    \* f.pgsize (pageSize in the fixed-size variant)
  pgmax,     \* f.pgmax: the per-shard quota
  shards,    \* f.shards, indexed from 0
  closed,    \* bfile.closed of the fixed-size variant
  offs,      \* File.off of every File sharing the bfile: the File returned
             \* by OpenFileSize first, then its clones
  ret,       \* the last operation: its arguments, what it returned, the
             \* backing-file calls it made and f.size when it started
  expect,    \* reference: the bytes a correct pager holds for the caller
  written,   \* reference: the ranges <<from, to>> of offsets written
             \* through this pager
  reopened,  \* reference: this pager was made on a file that the pager before
             \* it had written and flushed
  nops,      \* operations performed so far
  pc,        \* threads: where each thread is in the call it is making
  call,      \* threads: the arguments and local variables of that call
  locks,     \* threads: who holds or awaits f.mu and each shard's mu
  done,      \* threads: the calls that have returned, and what they returned
  len0,      \* reference: the backing file's length when the pager was made
  cfg0       \* reference: the pageSize and bufferSize the pager was made with

\* the variables of the specifications with threads
thvars == <<pc, call, locks, done>>

vars == <<file, fault, osclosed, size, pgsize, pgmax, shards, closed, offs, ret,
          expect, written, reopened, nops, pc, call, locks, done, len0,
          cfg0>>

\* f.mu and the shards' mutexes, all free: the threads holding f.mu shared,
\* the thread holding it exclusively (0: none), the threads that have called
\* Lock and wait, and the holder of each shard's mu (0: none)
NoLocks(shs) ==
  [readers |-> {}, writer |-> 0, waiting |-> {},
   shard |-> [i \in DOMAIN shs |-> 0]]

\* the state of the threads in the specifications without threads
NoThreads ==
  /\ pc = <<>>
  /\ call = <<>>
  /\ locks = NoLocks(<<>>)
  /\ done = {}

\* the pager as the record the operators above work on
Pg == [file |-> file, fault |-> fault, size |-> size, pgsize |-> pgsize,
       pgmax |-> pgmax, shards |-> shards]

SetPg(pg) ==
  /\ file' = pg.file
  /\ size' = pg.size
  /\ shards' = pg.shards
  /\ UNCHANGED <<fault, pgsize, pgmax>>

\* what ret records of an operation op through File h with arguments off and
\* len that returned r
Ret(op, h, off, len, r) ==
  [op |-> op, h |-> h, off |-> off, len |-> len, n |-> r.n, err |-> r.err,
   buf |-> r.buf, calls |-> r.calls, size0 |-> size]

\* an operation that returns only an error
Only(err, calls) == [n |-> 0, err |-> err, buf |-> <<>>, calls |-> calls]

NoRet == [op |-> "none", h |-> 0, off |-> 0, len |-> 0, n |-> 0, err |-> "nil",
          buf |-> <<>>, calls |-> <<>>, size0 |-> -1]

\* ------------------------------------------------------------------------
\* Inputs of the sequential specification of the growable pager
\* ------------------------------------------------------------------------
\* NewPagerSize(file, pageSize, bufferSize) as called
Configs == {[pageSize |-> 2, bufferSize |-> 8]}
\* what the backing file holds when the pager is created
InitFiles == {<<>>, << <<2, 7>>, <<1, 8>> >>}
\* (off, len) of a ReadAt or WriteAt
Requests ==
  {<<-1, 1>>, <<0, 0>>, <<0, 2>>, <<1, 2>>, <<3, 1>>, <<4, 2>>, <<6, 2>>,
   <<9, 1>>}
\* spare capacity of a caller's read buffer beyond its length
SpareCaps == {0, 2}

\* ------------------------------------------------------------------------
\* Reference semantics of a file, for the claims
\* ------------------------------------------------------------------------
\* a growable file after data is written at off
RefWrite(e, data, off) ==
  LET padded == IF ALen(e) < off THEN Cat(e, Rep(off - ALen(e), 0)) ELSE e
  IN  Cat(Cat(Take(padded, off), data), Drop(padded, off + ALen(data)))

\* ------------------------------------------------------------------------
\* The growable pager, one operation at a time
\* ------------------------------------------------------------------------
Alive == ret.err # "panic" /\ nops < MaxOps

\* NewPagerSize(file, cfg.pageSize, cfg.bufferSize) on a file holding fl
NewPagerSize(fl, cfg) ==
  LET pgsz  == PagerPageSize(cfg.pageSize)
      total == TotalPages(PagerBufferSize(cfg.bufferSize, pgsz), pgsz)
  IN  [file |-> fl, fault |-> "none", size |-> -1, pgsize |-> pgsz, pgmax |-> ShardPages(total),
       shards |-> [i \in 0..(NumShards(total) - 1) |-> NewShard]]

Init ==
  \E cfg \in Configs, fl \in InitFiles :
    LET pg == NewPagerSize(fl, cfg)
    IN  /\ file = pg.file
        /\ fault = pg.fault
        /\ osclosed = FALSE
        /\ size = pg.size
        /\ pgsize = pg.pgsize
        /\ pgmax = pg.pgmax
        /\ shards = pg.shards
        /\ closed = FALSE
        /\ offs = <<>>
        /\ ret = NoRet
        /\ expect = fl
        /\ written = {}
        /\ reopened = FALSE
        /\ nops = 0
        /\ NoThreads
        /\ len0 = ALen(fl)
        /\ cfg0 = cfg

\* Pager.ReadAt(b, off) with len(b) = rq[2], cap(b) = rq[2] + spare
ReadAt(rq, spare) ==
  /\ Alive
  /\ \E r \in {PagerIo(Pg, Rep(rq[2] + spare, Untouched), rq[2], rq[1], FALSE)} :
       /\ SetPg(r.pg)
       /\ ret' = Ret("ReadAt", 0, rq[1], rq[2], r)
  /\ nops' = nops + 1
  /\ UNCHANGED <<thvars, len0, cfg0>>
  /\ UNCHANGED <<osclosed, closed, offs, expect, written, reopened>>

\* Pager.WriteAt(b, off) with b = rq[2] bytes of value v; the k-th operation
\* writes bytes of value k, so that every write is told from the others
WriteAt(rq, v) ==
  /\ Alive
  /\ \E r \in {PagerIo(Pg, Rep(rq[2], v), rq[2], rq[1], TRUE)} :
       /\ SetPg(r.pg)
       /\ ret' = Ret("WriteAt", 0, rq[1], rq[2], r)
       /\ expect' = IF r.err = "nil" THEN RefWrite(expect, Rep(rq[2], v), rq[1])
                    ELSE expect
       /\ written' = IF r.err = "nil" /\ rq[2] > 0
                     THEN written \cup {<<rq[1], rq[1] + rq[2]>>}
                     ELSE written
  /\ nops' = nops + 1
  /\ UNCHANGED <<thvars, len0, cfg0>>
  /\ UNCHANGED <<osclosed, closed, offs, reopened>>

\* Pager.Flush()
Flush ==
  /\ Alive
  /\ \E ords \in FlushOrders(Pg) :
       \E r \in {FlushFrom(Pg, 0, ords, <<>>)} :
         /\ SetPg(r.pg)
         /\ ret' = Ret("Flush", 0, 0, 0, Only(r.err, r.calls))
  /\ nops' = nops + 1
  /\ UNCHANGED <<thvars, len0, cfg0>>
  /\ UNCHANGED <<osclosed, closed, offs, expect, written, reopened>>

\* a new pager on the same file, as TestFile makes after closing and reopening
NewPager ==
  /\ Alive
  /\ \E cfg \in Configs :
       \E pg \in {NewPagerSize(file, cfg)} :
         /\ file' = pg.file
         /\ fault' = pg.fault
         /\ size' = pg.size
         /\ pgsize' = pg.pgsize
         /\ pgmax' = pg.pgmax
         /\ shards' = pg.shards
         /\ cfg0' = cfg
  /\ ret' = [NoRet EXCEPT !.op = "NewPager"]
  /\ expect' = file
  /\ written' = {}
  /\ reopened' = (ret.op = "Flush" /\ ret.err = "nil" /\ written # {})
  /\ len0' = ALen(file)
  /\ nops' = nops + 1
  /\ UNCHANGED thvars
  /\ UNCHANGED <<osclosed, closed, offs>>

Next ==
  \/ \E rq \in Requests, spare \in SpareCaps : ReadAt(rq, spare)
  \/ \E rq \in Requests : WriteAt(rq, nops + 1)
  \/ Flush
  \/ NewPager

Spec == Init /\ [][Next]_vars

\* ------------------------------------------------------------------------
\* The growable pager on a backing file one call of which fails
\* ------------------------------------------------------------------------
\* operations performed on one pager whose backing file may fail
MaxFaultOps == 4
\* the call of the backing file that fails
PagerFaults == {"none", "Stat", "ReadAt", "WriteAt", "WriteAtFull"}
\* (off, len) of a ReadAt or WriteAt
FaultRequests == {<<0, 2>>, <<1, 2>>, <<0, 8>>, <<8, 3>>}
\* NewPagerSize(file, pageSize, bufferSize) as called: one shard of 4 pages,
\* and two shards of 16 pages
FaultConfigs == Configs \cup {[pageSize |-> 2, bufferSize |-> 66]}

InitFault ==
  \E cfg \in FaultConfigs, fl \in InitFiles, flt \in PagerFaults :
    LET pg == NewPagerSize(fl, cfg)
    IN  /\ file = pg.file
        /\ fault = flt
        /\ osclosed = FALSE
        /\ size = pg.size
        /\ pgsize = pg.pgsize
        /\ pgmax = pg.pgmax
        /\ shards = pg.shards
        /\ closed = FALSE
        /\ offs = <<>>
        /\ ret = NoRet
        /\ expect = fl
        /\ written = {}
        /\ reopened = FALSE
        /\ nops = 0
        /\ NoThreads
        /\ len0 = ALen(fl)
        /\ cfg0 = cfg

NextFault ==
  \/ \E rq \in FaultRequests, spare \in SpareCaps :
       nops < MaxFaultOps /\ ReadAt(rq, spare)
  \/ \E rq \in FaultRequests : nops < MaxFaultOps /\ WriteAt(rq, nops + 1)
  \/ nops < MaxFaultOps /\ Flush

SpecFault == InitFault /\ [][NextFault]_vars

\* ------------------------------------------------------------------------
\* The growable pager made with any pageSize and bufferSize
\* ------------------------------------------------------------------------
\* operations performed on one pager
MaxSizeOps == 3
\* the pageSize and the bufferSize passed to NewPagerSize
SizePageSizes == {0, 2, 3, 12288}
SizeBufferSizes == {0, 1, 8, 66}
SizeConfigs ==
  {[pageSize |-> ps, bufferSize |-> bs] :
     ps \in SizePageSizes, bs \in SizeBufferSizes}
\* (off, len) of a ReadAt or WriteAt: the first four pages, eighty bytes, and
\* single bytes beyond them
SizeRequests == {<<0, 4 * pgsize>>, <<0, 80>>, <<4 * pgsize, 1>>, <<4096, 1>>}

InitSize ==
  \E cfg \in SizeConfigs, fl \in {<<>>} :
    LET pg == NewPagerSize(fl, cfg)
    IN  /\ file = pg.file
        /\ fault = pg.fault
        /\ osclosed = FALSE
        /\ size = pg.size
        /\ pgsize = pg.pgsize
        /\ pgmax = pg.pgmax
        /\ shards = pg.shards
        /\ closed = FALSE
        /\ offs = <<>>
        /\ ret = NoRet
        /\ expect = fl
        /\ written = {}
        /\ reopened = FALSE
        /\ nops = 0
        /\ NoThreads
        /\ len0 = ALen(fl)
        /\ cfg0 = cfg

NextSize ==
  \/ \E rq \in SizeRequests : nops < MaxSizeOps /\ ReadAt(rq, 0)
  \/ \E rq \in SizeRequests : nops < MaxSizeOps /\ WriteAt(rq, nops + 1)

SpecSize == InitSize /\ [][NextSize]_vars

\* ------------------------------------------------------------------------
\* The fixed-size variant (the code in src/README.md): bfile and File
\* ------------------------------------------------------------------------
\* newFile(file, size, bufferSize) on a file holding fl that fails the call flt
NewFile(fl, flt, sz, bufferSize) ==
  LET total == TotalPages(bufferSize, pageSize)
  IN  [file |-> fl, fault |-> flt, size |-> sz, pgsize |-> pageSize,
       pgmax |-> ShardPages(total),
       shards |-> [i \in 0..(NumShards(total) - 1) |-> NewShard]]

\* OpenFileSize(name, flag, perm, bufferSize) on an existing file
OpenFileSize(fl, flt, bufferSize) ==
  NewFile(fl, flt, ALen(fl),
          IF bufferSize <= 0 THEN defaultBufferSize ELSE bufferSize)

\* a bfile.io that does not clamp a request that ends past size
BfileIoUnclamped(pg, cl, buf, blen, off, write) ==
  IF off < 0
  THEN [pg |-> pg, buf |-> buf, n |-> 0, err |-> "negative offset",
        calls |-> <<>>]
  ELSE IF cl
  THEN [pg |-> pg, buf |-> buf, n |-> 0, err |-> "closed", calls |-> <<>>]
  ELSE IoReturn(off + blen > pg.size,
                IoLoop(pg, buf, 0, blen, off, write, <<>>))

\* a bfile.io that does not look at f.closed
BfileIoIgnoresClosed(pg, cl, buf, blen, off, write) ==
  IF off < 0
  THEN [pg |-> pg, buf |-> buf, n |-> 0, err |-> "negative offset",
        calls |-> <<>>]
  ELSE LET past == off + blen > pg.size
           end  == IF past THEN Max(pg.size, off) ELSE off + blen
       IN  IoReturn(past, IoLoop(pg, buf, 0, end - off, off, write, <<>>))

\* bfile.io; cl is f.closed
BfileIo(pg, cl, buf, blen, off, write) ==
  IF off < 0
  THEN [pg |-> pg, buf |-> buf, n |-> 0, err |-> "negative offset",
        calls |-> <<>>]
  ELSE LET past == off + blen > pg.size
           end  == IF past THEN Max(pg.size, off) ELSE off + blen
       IN  IF cl
           THEN [pg |-> pg, buf |-> buf, n |-> 0, err |-> "closed",
                 calls |-> <<>>]
           ELSE IoReturn(past, IoLoop(pg, buf, 0, end - off, off, write, <<>>))

\* f.file.Sync() and f.file.Close() on a file that fails the call flt
OsCall(flt, name) == IF flt = name THEN "io" ELSE "nil"

\* the first non-nil error of errs
FirstError(errs) ==
  IF \A i \in DOMAIN errs : errs[i] = "nil" THEN "nil"
  ELSE errs[CHOOSE i \in DOMAIN errs :
              errs[i] # "nil" /\ \A j \in 1..(i - 1) : errs[j] = "nil"]

\* ------------------------------------------------------------------------
\* Inputs of the sequential specification of the fixed-size variant
\* ------------------------------------------------------------------------
\* operations performed on one bfile
MaxFileOps == 4
\* Files sharing the bfile: the one opened and its clones
MaxFiles == 2
\* what the file holds when it is opened: 100 bytes, and five pages of which
\* the last is short
FileInits ==
  {Cat(Rep(80, 7), Rep(20, 8)),
   Cat(Cat(Cat(Rep(pageSize, 11), Rep(pageSize, 12)),
           Cat(Rep(pageSize, 13), Rep(pageSize, 14))), Rep(7232, 15))}
\* the bufferSize passed to OpenFileSize
BufferSizes == {1}
\* the call of the backing file that fails
FileFaults == {"none", "WriteAt", "Sync"}
\* (off, len) of a ReadAt or WriteAt
FileRequests ==
  {<<-1, 1>>, <<80, 50>>, <<8190, 4>>, <<0, 40000>>, <<32768, 8192>>,
   <<40000, 1>>}
\* len(p) of a Read or Write
StreamLens == {50}
\* the size passed to Truncate
TruncSizes == {50, 40000}

\* ------------------------------------------------------------------------
\* The fixed-size variant, one operation at a time
\* ------------------------------------------------------------------------
FileAlive == ret.err # "panic" /\ nops < MaxFileOps

InitFile ==
  \E fl \in FileInits, flt \in FileFaults, bs \in BufferSizes :
    LET pg == OpenFileSize(fl, flt, bs)
    IN  /\ file = pg.file
        /\ fault = pg.fault
        /\ osclosed = FALSE
        /\ size = pg.size
        /\ pgsize = pg.pgsize
        /\ pgmax = pg.pgmax
        /\ shards = pg.shards
        /\ closed = FALSE
        /\ offs = <<0>>
        /\ ret = NoRet
        /\ expect = fl
        /\ written = {}
        /\ reopened = FALSE
        /\ nops = 0
        /\ NoThreads
        /\ len0 = ALen(fl)
        /\ cfg0 = [pageSize |-> pageSize, bufferSize |-> bs]

\* a call f.bfile.WriteAt(data, off) made by operation op of File h
BfileWriteAt(op, h, off, data) ==
  /\ \E r \in {BfileIo(Pg, closed, data, ALen(data), off, TRUE)} :
       /\ SetPg(r.pg)
       /\ ret' = Ret(op, h, off, ALen(data), r)
       /\ expect' = IF r.n > 0 THEN Copy(expect, off, Take(data, r.n))
                    ELSE expect
       /\ written' = IF r.n > 0 THEN written \cup {<<off, off + r.n>>}
                     ELSE written
       /\ offs' = IF op = "Write" THEN [offs EXCEPT ![h] = @ + r.n] ELSE offs
  /\ nops' = nops + 1
  /\ UNCHANGED <<thvars, len0, cfg0>>
  /\ UNCHANGED <<osclosed, closed, reopened>>

\* a call f.bfile.ReadAt(b, off) with len(b) = len made by operation op of
\* File h
BfileReadAt(op, h, off, len) ==
  /\ \E r \in {BfileIo(Pg, closed, Rep(len, Untouched), len, off, FALSE)} :
       /\ SetPg(r.pg)
       /\ ret' = Ret(op, h, off, len, r)
       /\ offs' = IF op = "Read" THEN [offs EXCEPT ![h] = @ + r.n] ELSE offs
  /\ nops' = nops + 1
  /\ UNCHANGED <<thvars, len0, cfg0>>
  /\ UNCHANGED <<osclosed, closed, expect, written, reopened>>

\* File.ReadAt(b, off), b holding rq[2] bytes of value v: it calls
\* f.bfile.WriteAt(b, off)
FileReadAt(h, rq, v) ==
  /\ FileAlive
  /\ BfileWriteAt("ReadAt", h, rq[1], Rep(rq[2], v))

\* File.WriteAt(b, off), b holding rq[2] bytes of value v
FileWriteAt(h, rq, v) ==
  /\ FileAlive
  /\ BfileWriteAt("WriteAt", h, rq[1], Rep(rq[2], v))

\* File.Write(p), p holding len bytes of value v
FileWrite(h, len, v) ==
  /\ FileAlive
  /\ BfileWriteAt("Write", h, offs[h], Rep(len, v))

\* File.Read(p) with len(p) = len
FileRead(h, len) ==
  /\ FileAlive
  /\ BfileReadAt("Read", h, offs[h], len)

\* what an operation made under f.mu.Lock() leaves and returns: the pager,
\* f.closed, whether the os.File is closed, the error and the calls it made
\* on the backing file
Excl(pg, cl, oscl, err, calls) ==
  [pg |-> pg, closed |-> cl, osclosed |-> oscl, err |-> err, calls |-> calls]

\* bfile.Flush; r is what f.flush() did
BfileFlushDone(cl, oscl, r) == Excl(r.pg, cl, oscl, r.err, r.calls)

\* bfile.Flush, the map iterations of f.flush() going as ords
BfileFlush(pg, cl, oscl, ords) ==
  IF cl THEN Excl(pg, cl, oscl, "closed", <<>>)
  ELSE BfileFlushDone(cl, oscl, FlushFrom(pg, 0, ords, <<>>))

\* bfile.Sync after f.flush(): f.file.Sync() unless flush failed
BfileSyncDone(cl, oscl, r) ==
  IF r.err # "nil" THEN Excl(r.pg, cl, oscl, r.err, r.calls)
  ELSE Excl(r.pg, cl, oscl, OsCall(r.pg.fault, "Sync"), Append(r.calls, "Sync"))

\* bfile.Sync
BfileSync(pg, cl, oscl, ords) ==
  IF cl THEN Excl(pg, cl, oscl, "closed", <<>>)
  ELSE BfileSyncDone(cl, oscl, FlushFrom(pg, 0, ords, <<>>))

\* bfile.Close after f.flush(): Sync and Close are called whatever flush
\* returned, then closed is set and the first error returned; a flush that
\* panics leaves the rest undone
BfileCloseDone(cl, oscl, r) ==
  IF r.err = "panic" THEN Excl(r.pg, cl, oscl, r.err, r.calls)
  ELSE Excl(r.pg, TRUE, TRUE,
            FirstError(<<r.err, OsCall(r.pg.fault, "Sync"),
                         OsCall(r.pg.fault, "Close")>>),
            r.calls \o <<"Sync", "Close">>)

\* bfile.Close
BfileClose(pg, cl, oscl, ords) ==
  IF cl THEN Excl(pg, cl, oscl, "closed", <<>>)
  ELSE BfileCloseDone(cl, oscl, FlushFrom(pg, 0, ords, <<>>))

\* File.Truncate(n); Truncate of a closed os.File fails
Truncate(pg, cl, oscl, n) ==
  IF oscl THEN Excl(pg, cl, oscl, "closed", <<"Truncate">>)
  ELSE IF pg.fault = "Truncate" THEN Excl(pg, cl, oscl, "io", <<"Truncate">>)
  ELSE Excl([pg EXCEPT !.file = OsTruncate(@, n), !.size = n], cl, oscl, "nil",
            <<"Truncate">>)

\* operation op of File h, made under f.mu.Lock(), has done and returned r
Exclusive(op, h, n, r) ==
  /\ SetPg(r.pg)
  /\ closed' = r.closed
  /\ osclosed' = r.osclosed
  /\ ret' = Ret(op, h, n, 0, Only(r.err, r.calls))
  /\ nops' = nops + 1
  /\ UNCHANGED <<thvars, len0, cfg0>>
  /\ UNCHANGED <<offs, reopened>>

\* File.Flush()
FileFlush(h) ==
  /\ FileAlive
  /\ \E ords \in FlushOrders(Pg) :
       Exclusive("Flush", h, 0, BfileFlush(Pg, closed, osclosed, ords))
  /\ UNCHANGED <<expect, written>>

\* File.Sync()
FileSync(h) ==
  /\ FileAlive
  /\ \E ords \in FlushOrders(Pg) :
       Exclusive("Sync", h, 0, BfileSync(Pg, closed, osclosed, ords))
  /\ UNCHANGED <<expect, written>>

\* File.Close()
FileClose(h) ==
  /\ FileAlive
  /\ \E ords \in FlushOrders(Pg) :
       Exclusive("Close", h, 0, BfileClose(Pg, closed, osclosed, ords))
  /\ UNCHANGED <<expect, written>>

\* the part of the written ranges that lies below n
ClipRanges(ws, n) == {<<w[1], Min(w[2], n)>> : w \in {x \in ws : x[1] < n}}

\* File.Truncate(n)
FileTruncate(h, n) ==
  /\ FileAlive
  /\ \E r \in {Truncate(Pg, closed, osclosed, n)} :
       /\ Exclusive("Truncate", h, n, r)
       /\ expect' = IF r.err = "nil" THEN OsTruncate(expect, n) ELSE expect
       /\ written' = IF r.err = "nil" THEN ClipRanges(written, n) ELSE written

\* File.Size()
FileSize(h) ==
  /\ FileAlive
  /\ ret' = Ret("Size", h, 0, 0, [Only("nil", <<>>) EXCEPT !.n = size])
  /\ nops' = nops + 1
  /\ UNCHANGED <<thvars, len0, cfg0>>
  /\ UNCHANGED <<file, fault, osclosed, size, pgsize, pgmax, shards, closed,
                 offs, expect, written, reopened>>

\* File.Clone(): a new File on the same bfile, its offset 0
FileClone(h) ==
  /\ FileAlive
  /\ Len(offs) < MaxFiles
  /\ offs' = Append(offs, 0)
  /\ ret' = Ret("Clone", h, 0, 0, Only("nil", <<>>))
  /\ nops' = nops + 1
  /\ UNCHANGED <<thvars, len0, cfg0>>
  /\ UNCHANGED <<file, fault, osclosed, size, pgsize, pgmax, shards, closed,
                 expect, written, reopened>>

NextFile ==
  \/ \E h \in DOMAIN offs, rq \in FileRequests : FileReadAt(h, rq, nops + 1)
  \/ \E h \in DOMAIN offs, rq \in FileRequests : FileWriteAt(h, rq, nops + 1)
  \/ \E h \in DOMAIN offs, len \in StreamLens : FileWrite(h, len, nops + 1)
  \/ \E h \in DOMAIN offs, len \in StreamLens : FileRead(h, len)
  \/ \E h \in DOMAIN offs : FileFlush(h)
  \/ \E h \in DOMAIN offs : FileSync(h)
  \/ \E h \in DOMAIN offs : FileClose(h)
  \/ \E h \in DOMAIN offs, n \in TruncSizes : FileTruncate(h, n)
  \/ \E h \in DOMAIN offs : FileSize(h)
  \/ \E h \in DOMAIN offs : FileClone(h)

SpecFile == InitFile /\ [][NextFile]_vars

\* ------------------------------------------------------------------------
\* Threads.  A call is made in steps: every acquisition of f.mu or of a
\* shard's mu is a step of its own, and so is every stretch of code between
\* two of them.  pc[t] names the step thread t makes next.
\* ------------------------------------------------------------------------
\* threads calling into one pager
NumThreads == 2
\* calls made by one thread
MaxCalls == 2
\* calls made by all threads together
MaxTotalCalls == 3

Threads == 1..NumThreads

\* the locals of a call: the operation and its arguments (off0, len), the
\* caller's buffer, io's total, the bytes still to transfer, the offset it has
\* advanced to, its eof flag, the error it is about to return, the size it
\* read before deciding to extend, the number k of calls the thread made,
\* and pio's page p with the number ci of bytes its copy has moved
NoCall ==
  [op |-> "none", off0 |-> 0, len |-> 0, write |-> FALSE, buf |-> <<>>,
   total |-> 0, rem |-> 0, off |-> 0, eof |-> FALSE, err |-> "nil",
   seen |-> -1, k |-> 0, p |-> NIL, ci |-> 0]

\* a panic in any thread ends the program
Halted == \E t \in Threads : pc[t] = "panic"

\* thread t is about to make step l
AtPc(t, l) == ~Halted /\ pc[t] = l

RECURSIVE CallsMade(_)
\* the calls made so far by the threads 1..n
CallsMade(n) == IF n = 0 THEN 0 ELSE call[n].k + CallsMade(n - 1)

\* thread t may make another call
Idle(t) ==
  /\ AtPc(t, "idle")
  /\ call[t].k < MaxCalls
  /\ CallsMade(NumThreads) < MaxTotalCalls

\* what is recorded of the call of thread t when it returns n and err
Returned(t, n, err) ==
  [t |-> t, k |-> call[t].k, op |-> call[t].op, off |-> call[t].off0,
   len |-> call[t].len, n |-> n, err |-> err, buf |-> call[t].buf,
   seen |-> call[t].seen]

\* the variables of the pager, and those no step of a thread changes
pgvars == <<file, fault, osclosed, size, pgsize, pgmax, shards, closed>>
seqvars == <<offs, ret, expect, written, reopened, nops, len0, cfg0>>

\* the shard of the page thread t works on
CallShard(t) ==
  ShardOf(call[t].off \div pgsize, Cardinality(DOMAIN shards))

\* Thread t calls io(b, off, write) for operation op with off = rq[1] and
\* len(b) = rq[2]; the buffer of a write holds bytes of value t.  A negative
\* offset returns at once; otherwise the call goes on at first.
IoCall(t, op, rq, write, first) ==
  /\ Idle(t)
  /\ IF rq[1] < 0
     THEN /\ call' = [call EXCEPT ![t] = [NoCall EXCEPT !.k = call[t].k + 1]]
          /\ done' = done \cup
               {[t |-> t, k |-> call[t].k + 1, op |-> op, off |-> rq[1],
                 len |-> rq[2], n |-> 0, err |-> "negative offset",
                 buf |-> <<>>, seen |-> -1]}
          /\ UNCHANGED pc
     ELSE /\ call' = [call EXCEPT ![t] =
                        [NoCall EXCEPT !.op = op, !.off0 = rq[1], !.len = rq[2],
                                       !.write = write,
                                       !.buf = IF write
                                               THEN Rep(rq[2], t)
                                               ELSE Rep(rq[2], Untouched),
                                       !.rem = rq[2], !.off = rq[1],
                                       !.k = call[t].k + 1]]
          /\ pc' = [pc EXCEPT ![t] = first]
          /\ UNCHANGED done
  /\ UNCHANGED <<locks, pgvars, seqvars>>

\* f.mu.RLock(): it waits while a thread holds f.mu exclusively or has
\* called Lock and waits for the readers to leave
RLock(t) ==
  /\ ~Halted
  /\ pc[t] \in {"rlock", "rlock2", "frlock"}
  /\ locks.writer = 0
  /\ locks.waiting = {}
  /\ locks' = [locks EXCEPT !.readers = @ \cup {t}]
  /\ pc' = [pc EXCEPT ![t] =
              CASE @ = "rlock" -> "check"
                [] @ = "rlock2" -> IF call[t].write THEN "loop" ELSE "clamp"
                [] @ = "frlock" -> "fclosed"]
  /\ UNCHANGED <<call, done, pgvars, seqvars>>

\* f.mu.Lock(), first half: the thread takes its turn among the writers, and
\* from now on no new reader is let in
LockRequest(t) ==
  /\ ~Halted
  /\ pc[t] \in {"incr_lock", "lock", "flock"}
  /\ locks.writer = 0
  /\ locks.waiting = {}
  /\ locks' = [locks EXCEPT !.waiting = {t}]
  /\ pc' = [pc EXCEPT ![t] =
              CASE @ = "incr_lock" -> "incr_wait"
                [] @ = "lock" -> "lock_wait"
                [] @ = "flock" -> "flock_wait"]
  /\ UNCHANGED <<call, done, pgvars, seqvars>>

\* f.mu.Lock(), second half: the readers have left
LockAcquire(t) ==
  /\ ~Halted
  /\ pc[t] \in {"incr_wait", "lock_wait", "flock_wait"}
  /\ locks.readers = {}
  /\ locks' = [locks EXCEPT !.waiting = {}, !.writer = t]
  /\ pc' = [pc EXCEPT ![t] =
              CASE @ = "incr_wait" -> "incr"
                [] @ = "lock_wait" -> "flush"
                [] @ = "flock_wait" -> "excl"]
  /\ UNCHANGED <<call, done, pgvars, seqvars>>

\* a pio that goes on without waiting for the shard's mutex
PioLockNoWait(t) ==
  /\ AtPc(t, "loop")
  /\ call[t].rem > 0
  /\ locks' = [locks EXCEPT !.shard[CallShard(t)] = t]
  /\ pc' = [pc EXCEPT ![t] = "pio"]
  /\ UNCHANGED <<call, done, pgvars, seqvars>>

\* pio: s.mu.Lock() of the shard of the next page of the request
PioLock(t) ==
  /\ AtPc(t, "loop")
  /\ call[t].rem > 0
  /\ locks.shard[CallShard(t)] = 0
  /\ locks' = [locks EXCEPT !.shard[CallShard(t)] = t]
  /\ pc' = [pc EXCEPT ![t] = "pio"]
  /\ UNCHANGED <<call, done, pgvars, seqvars>>

\* pio, from s.init() to its return and the deferred s.mu.Unlock(), and the
\* bookkeeping of io's loop that follows
PioRun(t) ==
  /\ AtPc(t, "pio")
  /\ \E c \in {IoChunk(Pg, call[t].buf, call[t].total, call[t].rem,
                       call[t].off, call[t].write)} :
       /\ SetPg(c.pg)
       /\ call' = [call EXCEPT ![t].buf = c.buf,
                               ![t].total = @ + c.n,
                               ![t].rem = @ - c.n,
                               ![t].off = @ + c.n,
                               ![t].err = c.err]
       /\ pc' = [pc EXCEPT ![t] = CASE c.err = "panic" -> "panic"
                                    [] c.err = "nil" -> "loop"
                                    [] OTHER -> "return"]
  /\ locks' = [locks EXCEPT !.shard[CallShard(t)] = 0]
  /\ UNCHANGED <<done, osclosed, closed, seqvars>>

\* io returns: total and the error, or io.EOF, or nil; the deferred
\* f.mu.RUnlock().  File.Read and File.Write then add n to f.off.
Return(t) ==
  /\ \/ AtPc(t, "return")
     \/ AtPc(t, "loop") /\ call[t].rem = 0
  /\ done' = done \cup
       {Returned(t, call[t].total,
                 IF call[t].err # "nil" THEN call[t].err
                 ELSE IF call[t].eof THEN "EOF" ELSE "nil")}
  /\ locks' = [locks EXCEPT !.readers = @ \ {t}]
  /\ pc' = [pc EXCEPT ![t] = "idle"]
  /\ offs' = IF call[t].op \in {"Read", "Write"}
             THEN [offs EXCEPT ![t] = @ + call[t].total]
             ELSE offs
  /\ UNCHANGED <<call, pgvars>>
  /\ UNCHANGED <<ret, expect, written, reopened, nops, len0, cfg0>>

\* ------------------------------------------------------------------------
\* The growable pager with threads
\* ------------------------------------------------------------------------
\* what the backing file holds when the pager is made
ConcInitFiles == {<<>>, << <<2, 7>>, <<1, 8>> >>}
\* (off, len) of a ReadAt or WriteAt of a thread
ConcRequests == {<<-1, 1>>, <<0, 2>>, <<1, 4>>, <<6, 0>>}

InitConc ==
  \E cfg \in Configs, fl \in ConcInitFiles :
    LET pg == NewPagerSize(fl, cfg)
    IN  /\ file = pg.file
        /\ fault = pg.fault
        /\ osclosed = FALSE
        /\ size = pg.size
        /\ pgsize = pg.pgsize
        /\ pgmax = pg.pgmax
        /\ shards = pg.shards
        /\ closed = FALSE
        /\ offs = <<>>
        /\ ret = NoRet
        /\ expect = fl
        /\ written = {}
        /\ reopened = FALSE
        /\ nops = 0
        /\ pc = [t \in Threads |-> "idle"]
        /\ call = [t \in Threads |-> NoCall]
        /\ locks = NoLocks(pg.shards)
        /\ done = {}
        /\ len0 = ALen(fl)
        /\ cfg0 = cfg

\* Pager.ReadAt(b, off) or Pager.WriteAt(b, off) is called: io up to
\* f.mu.RLock()
PagerCall(t, op, rq) == IoCall(t, op, rq, op = "WriteAt", "rlock")

\* io: if end > f.size, under the shared lock
CheckSize(t) ==
  /\ AtPc(t, "check")
  /\ call' = [call EXCEPT ![t].seen = size]
  /\ pc' = [pc EXCEPT ![t] = IF call[t].off0 + call[t].len > size
                             THEN "incr_runlock" ELSE "loop"]
  /\ UNCHANGED <<locks, done, pgvars, seqvars>>

\* incrSize: f.mu.RUnlock()
IncrRUnlock(t) ==
  /\ AtPc(t, "incr_runlock")
  /\ locks' = [locks EXCEPT !.readers = @ \ {t}]
  /\ pc' = [pc EXCEPT ![t] = "incr_lock"]
  /\ UNCHANGED <<call, done, pgvars, seqvars>>

\* incrSize under the exclusive lock, and the f.mu.Unlock() of its deferred
\* function
IncrSizeLocked(t) ==
  /\ AtPc(t, "incr")
  /\ size' = IncrSize(size, file, fault, call[t].off0 + call[t].len)
  /\ locks' = [locks EXCEPT !.writer = 0]
  /\ pc' = [pc EXCEPT ![t] = "rlock2"]
  /\ UNCHANGED <<file, fault, osclosed, pgsize, pgmax, shards, closed>>
  /\ UNCHANGED <<call, done, seqvars>>

\* io after incrSize, for a read: end = f.size; eof = true; b = b[:end-start],
\* which panics beyond the capacity of b
Clamp(t) ==
  /\ AtPc(t, "clamp")
  /\ IF ReadLen(size, call[t].off0) > ALen(call[t].buf)
     THEN /\ pc' = [pc EXCEPT ![t] = "panic"]
          /\ UNCHANGED call
     ELSE /\ pc' = [pc EXCEPT ![t] = "loop"]
          /\ call' = [call EXCEPT ![t].rem = ReadLen(size, call[t].off0),
                                  ![t].eof = TRUE]
  /\ UNCHANGED <<locks, done, pgvars, seqvars>>

\* Pager.Flush() is called: up to f.mu.Lock()
PagerFlushCall(t) ==
  /\ Idle(t)
  /\ call' = [call EXCEPT ![t] = [NoCall EXCEPT !.op = "Flush",
                                                !.k = call[t].k + 1]]
  /\ pc' = [pc EXCEPT ![t] = "lock"]
  /\ UNCHANGED <<locks, done, pgvars, seqvars>>

\* Pager.Flush under the exclusive lock, and its deferred f.mu.Unlock()
PagerFlushRun(t) ==
  /\ AtPc(t, "flush")
  /\ \E ords \in FlushOrders(Pg) :
       \E r \in {FlushFrom(Pg, 0, ords, <<>>)} :
         /\ SetPg(r.pg)
         /\ done' = done \cup {Returned(t, 0, r.err)}
         /\ pc' = [pc EXCEPT ![t] = IF r.err = "panic" THEN "panic" ELSE "idle"]
  /\ locks' = [locks EXCEPT !.writer = 0]
  /\ UNCHANGED <<call, osclosed, closed, seqvars>>

NextConc ==
  \/ \E t \in Threads, rq \in ConcRequests : PagerCall(t, "WriteAt", rq)
  \/ \E t \in Threads, rq \in ConcRequests : PagerCall(t, "ReadAt", rq)
  \/ \E t \in Threads : PagerFlushCall(t)
  \/ \E t \in Threads : RLock(t)
  \/ \E t \in Threads : CheckSize(t)
  \/ \E t \in Threads : IncrRUnlock(t)
  \/ \E t \in Threads : LockRequest(t)
  \/ \E t \in Threads : LockAcquire(t)
  \/ \E t \in Threads : IncrSizeLocked(t)
  \/ \E t \in Threads : Clamp(t)
  \/ \E t \in Threads : PioLock(t)
  \/ \E t \in Threads : PioRun(t)
  \/ \E t \in Threads : Return(t)
  \/ \E t \in Threads : PagerFlushRun(t)

SpecConc == InitConc /\ [][NextConc]_vars

\* a step of thread t inside a call it has made, other than the body of pio
\* and the body of Flush
LockStep(t) ==
  \/ RLock(t)
  \/ CheckSize(t)
  \/ IncrRUnlock(t)
  \/ LockRequest(t)
  \/ LockAcquire(t)
  \/ IncrSizeLocked(t)
  \/ Clamp(t)
  \/ PioLock(t)
  \/ Return(t)

\* a step of thread t inside a call it has made
ThreadStep(t) == LockStep(t) \/ PioRun(t) \/ PagerFlushRun(t)

\* thread t goes on in the end whenever it can.  The body of pio and the body
\* of Flush wait for nothing (the backing file's calls return), so that for
\* them weak fairness is: the thread does not stay in them for ever
Progress(t) ==
  /\ WF_vars(LockStep(t))
  /\ []<>(~AtPc(t, "pio"))
  /\ []<>(~AtPc(t, "flush"))

\* calls made by all threads together when every call is followed to its end
MaxLiveCalls == 2
\* (off, len) of a ReadAt or WriteAt of a thread
LiveRequests == {<<0, 2>>, <<1, 4>>}

\* thread t may make another of the calls followed to their end
LiveIdle(t) == Idle(t) /\ CallsMade(NumThreads) < MaxLiveCalls

NextLive ==
  \/ \E t \in Threads, rq \in LiveRequests :
       LiveIdle(t) /\ PagerCall(t, "WriteAt", rq)
  \/ \E t \in Threads, rq \in LiveRequests :
       LiveIdle(t) /\ PagerCall(t, "ReadAt", rq)
  \/ \E t \in Threads : LiveIdle(t) /\ PagerFlushCall(t)
  \/ \E t \in Threads : ThreadStep(t)

\* the pager with threads, every thread that can go on going on in the end:
\* the scheduler runs every goroutine that is runnable, and a sync.RWMutex or
\* a sync.Mutex that is free is given to a goroutine waiting for it
SpecLive == InitConc /\ [][NextLive]_vars /\ \A t \in Threads : Progress(t)

\* ------------------------------------------------------------------------
\* The growable pager with threads whose requests fill a shard and go on
\* ------------------------------------------------------------------------
\* (off, len) of a ReadAt or WriteAt of a thread: the four pages of the
\* shard's quota, a byte of a fifth page, and a byte of the second page
EvictRequests == {<<0, 8>>, <<8, 1>>, <<3, 1>>}

InitEvict ==
  \E cfg \in Configs, fl \in {<<>>} :
    LET pg == NewPagerSize(fl, cfg)
    IN  /\ file = pg.file
        /\ fault = pg.fault
        /\ osclosed = FALSE
        /\ size = pg.size
        /\ pgsize = pg.pgsize
        /\ pgmax = pg.pgmax
        /\ shards = pg.shards
        /\ closed = FALSE
        /\ offs = <<>>
        /\ ret = NoRet
        /\ expect = fl
        /\ written = {}
        /\ reopened = FALSE
        /\ nops = 0
        /\ pc = [t \in Threads |-> "idle"]
        /\ call = [t \in Threads |-> NoCall]
        /\ locks = NoLocks(pg.shards)
        /\ done = {}
        /\ len0 = ALen(fl)
        /\ cfg0 = cfg

NextEvict ==
  \/ \E t \in Threads, rq \in EvictRequests : PagerCall(t, "WriteAt", rq)
  \/ \E t \in Threads, rq \in EvictRequests : PagerCall(t, "ReadAt", rq)
  \/ \E t \in Threads : RLock(t)
  \/ \E t \in Threads : CheckSize(t)
  \/ \E t \in Threads : IncrRUnlock(t)
  \/ \E t \in Threads : LockRequest(t)
  \/ \E t \in Threads : LockAcquire(t)
  \/ \E t \in Threads : IncrSizeLocked(t)
  \/ \E t \in Threads : Clamp(t)
  \/ \E t \in Threads : PioLock(t)
  \/ \E t \in Threads : PioRun(t)
  \/ \E t \in Threads : Return(t)

SpecEvict == InitEvict /\ [][NextEvict]_vars

\* ------------------------------------------------------------------------
\* The growable pager with threads working on one page, the copy of pio
\* moving one byte at a time
\* ------------------------------------------------------------------------
\* (off, len) of a ReadAt or WriteAt of a thread, inside page 0
CopyRequests == {<<0, 2>>, <<1, 1>>}
\* what the backing file holds when the pager is made
CopyInitFiles == {<<>>, << <<1, 7>>, <<1, 8>> >>}

InitCopy ==
  \E cfg \in Configs, fl \in CopyInitFiles :
    LET pg == NewPagerSize(fl, cfg)
    IN  /\ file = pg.file
        /\ fault = pg.fault
        /\ osclosed = FALSE
        /\ size = pg.size
        /\ pgsize = pg.pgsize
        /\ pgmax = pg.pgmax
        /\ shards = pg.shards
        /\ closed = FALSE
        /\ offs = <<>>
        /\ ret = NoRet
        /\ expect = fl
        /\ written = {}
        /\ reopened = FALSE
        /\ nops = 0
        /\ pc = [t \in Threads |-> "idle"]
        /\ call = [t \in Threads |-> NoCall]
        /\ locks = NoLocks(pg.shards)
        /\ done = {}
        /\ len0 = ALen(fl)
        /\ cfg0 = cfg

\* pstart and pend of the chunk thread t works on
CallStart(t) == BitAnd(call[t].off, pgsize - 1)
CallEnd(t) == Min(CallStart(t) + call[t].rem, pgsize)

\* pio under the shard's mutex, from s.init() up to its copy
CopyFind(t) ==
  /\ AtPc(t, "pio")
  /\ \E f \in {PioPage(shards[CallShard(t)], file, fault, size, pgsize, pgmax,
                        call[t].off \div pgsize, CallStart(t), CallEnd(t),
                        call[t].write)} :
       /\ shards' = [shards EXCEPT ![CallShard(t)] = f.shard]
       /\ file' = f.file
       /\ IF f.err = "nil"
          THEN /\ call' = [call EXCEPT ![t].p = f.p, ![t].ci = 0]
               /\ pc' = [pc EXCEPT ![t] = "copy"]
               /\ UNCHANGED locks
          ELSE /\ call' = [call EXCEPT ![t].err = f.err]
               /\ pc' = [pc EXCEPT ![t] = IF f.err = "panic" THEN "panic"
                                          ELSE "return"]
               /\ locks' = [locks EXCEPT !.shard[CallShard(t)] = 0]
  /\ UNCHANGED <<fault, size, pgsize, pgmax, osclosed, closed>>
  /\ UNCHANGED <<done, seqvars>>

\* one byte of copy(p.data[pstart:pend], b) or copy(b, p.data[pstart:pend])
CopyByte(t) ==
  /\ AtPc(t, "copy")
  /\ call[t].ci < CallEnd(t) - CallStart(t)
  /\ IF call[t].write
     THEN /\ shards' = [shards EXCEPT ![CallShard(t)].nodes[call[t].p].data =
                          Copy(@, CallStart(t) + call[t].ci,
                               Slice(call[t].buf, call[t].total + call[t].ci,
                                     call[t].total + call[t].ci + 1))]
          /\ call' = [call EXCEPT ![t].ci = @ + 1]
     ELSE /\ call' = [call EXCEPT
                       ![t].buf =
                          Copy(@, call[t].total + call[t].ci,
                               Slice(shards[CallShard(t)].nodes[call[t].p].data,
                                     CallStart(t) + call[t].ci,
                                     CallStart(t) + call[t].ci + 1)),
                       ![t].ci = @ + 1]
          /\ UNCHANGED shards
  /\ UNCHANGED <<file, fault, size, pgsize, pgmax, osclosed, closed>>
  /\ UNCHANGED <<pc, locks, done, seqvars>>

\* the end of pio: s.dirty[pnum] = true after the copy of a write, return
\* len(b) and the deferred s.mu.Unlock(); the bookkeeping of io's loop
CopyDone(t) ==
  /\ AtPc(t, "copy")
  /\ call[t].ci = CallEnd(t) - CallStart(t)
  /\ shards' = IF call[t].write
               THEN [shards EXCEPT ![CallShard(t)].dirty =
                       @ \cup {call[t].off \div pgsize}]
               ELSE shards
  /\ call' = [call EXCEPT ![t].total = @ + call[t].ci,
                          ![t].rem = @ - call[t].ci,
                          ![t].off = @ + call[t].ci,
                          ![t].p = NIL,
                          ![t].ci = 0]
  /\ pc' = [pc EXCEPT ![t] = "loop"]
  /\ locks' = [locks EXCEPT !.shard[CallShard(t)] = 0]
  /\ UNCHANGED <<file, fault, size, pgsize, pgmax, osclosed, closed>>
  /\ UNCHANGED <<done, seqvars>>

NextCopy ==
  \/ \E t \in Threads, rq \in CopyRequests : PagerCall(t, "WriteAt", rq)
  \/ \E t \in Threads, rq \in CopyRequests : PagerCall(t, "ReadAt", rq)
  \/ \E t \in Threads : RLock(t)
  \/ \E t \in Threads : CheckSize(t)
  \/ \E t \in Threads : IncrRUnlock(t)
  \/ \E t \in Threads : LockRequest(t)
  \/ \E t \in Threads : LockAcquire(t)
  \/ \E t \in Threads : IncrSizeLocked(t)
  \/ \E t \in Threads : Clamp(t)
  \/ \E t \in Threads : PioLock(t)
  \/ \E t \in Threads : CopyFind(t)
  \/ \E t \in Threads : CopyByte(t)
  \/ \E t \in Threads : CopyDone(t)
  \/ \E t \in Threads : Return(t)

SpecCopy == InitCopy /\ [][NextCopy]_vars

\* ------------------------------------------------------------------------
\* One Stream of the growable pager, shared by the threads; offs[1] is its off
\* ------------------------------------------------------------------------
\* the offset passed to Pager.Stream
StreamStarts == {0, 1}
\* len(p) of a Stream.Read or Stream.Write of a thread
StreamConcLens == {1, 2}

InitStream ==
  \E cfg \in Configs, fl \in ConcInitFiles, s0 \in StreamStarts :
    LET pg == NewPagerSize(fl, cfg)
    IN  /\ file = pg.file
        /\ fault = pg.fault
        /\ osclosed = FALSE
        /\ size = pg.size
        /\ pgsize = pg.pgsize
        /\ pgmax = pg.pgmax
        /\ shards = pg.shards
        /\ closed = FALSE
        /\ offs = <<s0>>
        /\ ret = NoRet
        /\ expect = fl
        /\ written = {}
        /\ reopened = FALSE
        /\ nops = 0
        /\ pc = [t \in Threads |-> "idle"]
        /\ call = [t \in Threads |-> NoCall]
        /\ locks = NoLocks(pg.shards)
        /\ done = {}
        /\ len0 = ALen(fl)
        /\ cfg0 = [pageSize |-> cfg.pageSize, bufferSize |-> cfg.bufferSize,
                   off |-> s0]

\* a Stream that stores the offset it loaded plus n, instead of adding n
StreamAddStore(cur, loaded, n) == loaded + n

\* atomic.AddInt64(&s.off, int64(n)): s.off after it, cur being s.off before
\* it and loaded the offset the call loaded when it started
StreamAddInt64(cur, loaded, n) == cur + n

\* Stream.Read(p) or Stream.Write(p) is called: atomic.LoadInt64(&s.off), and
\* io up to f.mu.RLock()
StreamCall(t, op, len) == IoCall(t, op, <<offs[1], len>>, op = "Write", "rlock")

\* ReadAt or WriteAt returns to Stream.Read or Stream.Write: the deferred
\* f.mu.RUnlock()
StreamReturn(t) ==
  /\ \/ AtPc(t, "return")
     \/ AtPc(t, "loop") /\ call[t].rem = 0
  /\ locks' = [locks EXCEPT !.readers = @ \ {t}]
  /\ pc' = [pc EXCEPT ![t] = "add"]
  /\ UNCHANGED <<call, done, pgvars, seqvars>>

\* atomic.AddInt64(&s.off, int64(n)), and Stream.Read or Stream.Write returns
StreamAdd(t) ==
  /\ AtPc(t, "add")
  /\ offs' = [offs EXCEPT ![1] = StreamAddInt64(@, call[t].off0, call[t].total)]
  /\ done' = done \cup
       {Returned(t, call[t].total,
                 IF call[t].err # "nil" THEN call[t].err
                 ELSE IF call[t].eof THEN "EOF" ELSE "nil")}
  /\ pc' = [pc EXCEPT ![t] = "idle"]
  /\ UNCHANGED <<call, locks, pgvars>>
  /\ UNCHANGED <<ret, expect, written, reopened, nops, len0, cfg0>>

NextStream ==
  \/ \E t \in Threads, len \in StreamConcLens : StreamCall(t, "Write", len)
  \/ \E t \in Threads, len \in StreamConcLens : StreamCall(t, "Read", len)
  \/ \E t \in Threads : RLock(t)
  \/ \E t \in Threads : CheckSize(t)
  \/ \E t \in Threads : IncrRUnlock(t)
  \/ \E t \in Threads : LockRequest(t)
  \/ \E t \in Threads : LockAcquire(t)
  \/ \E t \in Threads : IncrSizeLocked(t)
  \/ \E t \in Threads : Clamp(t)
  \/ \E t \in Threads : PioLock(t)
  \/ \E t \in Threads : PioRun(t)
  \/ \E t \in Threads : StreamReturn(t)
  \/ \E t \in Threads : StreamAdd(t)

SpecStream == InitStream /\ [][NextStream]_vars

\* ------------------------------------------------------------------------
\* The fixed-size variant with threads; thread t works on its own File, the
\* one opened or a clone of it, all on one bfile
\* ------------------------------------------------------------------------
\* (off, len) of a File.ReadAt or File.WriteAt of a thread
FileConcRequests == {<<-1, 1>>, <<80, 50>>, <<0, 10>>}
\* the size a thread passes to Truncate
FileConcTruncSizes == {50}

InitFileConc ==
  \E fl \in {Cat(Rep(80, 7), Rep(20, 8))}, bs \in BufferSizes :
    LET pg == OpenFileSize(fl, "none", bs)
    IN  /\ file = pg.file
        /\ fault = pg.fault
        /\ osclosed = FALSE
        /\ size = pg.size
        /\ pgsize = pg.pgsize
        /\ pgmax = pg.pgmax
        /\ shards = pg.shards
        /\ closed = FALSE
        /\ offs = [t \in Threads |-> 0]
        /\ ret = NoRet
        /\ expect = fl
        /\ written = {}
        /\ reopened = FALSE
        /\ nops = 0
        /\ pc = [t \in Threads |-> "idle"]
        /\ call = [t \in Threads |-> NoCall]
        /\ locks = NoLocks(pg.shards)
        /\ done = {}
        /\ len0 = ALen(fl)
        /\ cfg0 = [pageSize |-> pageSize, bufferSize |-> bs]

\* File.WriteAt(b, off) and File.ReadAt(b, off) are called: both call
\* f.bfile.WriteAt(b, off)
FileIoCall(t, op, rq) == IoCall(t, op, rq, TRUE, "fsize")

\* File.Read(p) is called: f.bfile.ReadAt(p, f.off)
FileReadCall(t, len) == IoCall(t, "Read", <<offs[t], len>>, FALSE, "fsize")

\* bfile.io, validate input: end is compared with f.size and clamped to it
\* before f.mu.RLock()
IoReadSize(t) ==
  /\ AtPc(t, "fsize")
  /\ call' = [call EXCEPT
                ![t].seen = size,
                ![t].eof = call[t].off0 + call[t].len > size,
                ![t].rem = IF call[t].off0 + call[t].len > size
                           THEN Max(size, call[t].off0) - call[t].off0
                           ELSE call[t].len]
  /\ pc' = [pc EXCEPT ![t] = "frlock"]
  /\ UNCHANGED <<locks, done, pgvars, seqvars>>

\* bfile.io: if f.closed, under the shared lock
IoCheckClosed(t) ==
  /\ AtPc(t, "fclosed")
  /\ call' = [call EXCEPT ![t].err = IF closed THEN "closed" ELSE "nil"]
  /\ pc' = [pc EXCEPT ![t] = IF closed THEN "return" ELSE "loop"]
  /\ UNCHANGED <<locks, done, pgvars, seqvars>>

\* Flush, Sync, Close or Truncate(n) is called: up to f.mu.Lock()
ExclCall(t, op, n) ==
  /\ Idle(t)
  /\ call' = [call EXCEPT ![t] = [NoCall EXCEPT !.op = op, !.off0 = n,
                                                !.k = call[t].k + 1]]
  /\ pc' = [pc EXCEPT ![t] = "flock"]
  /\ UNCHANGED <<locks, done, pgvars, seqvars>>

\* what operation op does under the exclusive lock
ExclOp(op, pg, cl, oscl, n, ords) ==
  CASE op = "Flush" -> BfileFlush(pg, cl, oscl, ords)
    [] op = "Sync" -> BfileSync(pg, cl, oscl, ords)
    [] op = "Close" -> BfileClose(pg, cl, oscl, ords)
    [] op = "Truncate" -> Truncate(pg, cl, oscl, n)

\* Flush, Sync, Close or Truncate under the exclusive lock, and the deferred
\* f.mu.Unlock()
ExclRun(t) ==
  /\ AtPc(t, "excl")
  /\ \E ords \in FlushOrders(Pg) :
       \E r \in {ExclOp(call[t].op, Pg, closed, osclosed, call[t].off0, ords)} :
         /\ SetPg(r.pg)
         /\ closed' = r.closed
         /\ osclosed' = r.osclosed
         /\ done' = done \cup {Returned(t, 0, r.err)}
         /\ pc' = [pc EXCEPT ![t] = IF r.err = "panic" THEN "panic" ELSE "idle"]
  /\ locks' = [locks EXCEPT !.writer = 0]
  /\ UNCHANGED <<call, seqvars>>

\* File.Size() is called
SizeCall(t) ==
  /\ Idle(t)
  /\ call' = [call EXCEPT ![t] = [NoCall EXCEPT !.op = "Size",
                                                !.k = call[t].k + 1]]
  /\ pc' = [pc EXCEPT ![t] = "sizeread"]
  /\ UNCHANGED <<locks, done, pgvars, seqvars>>

\* File.Size(): return f.bfile.size
SizeRead(t) ==
  /\ AtPc(t, "sizeread")
  /\ done' = done \cup {Returned(t, size, "nil")}
  /\ pc' = [pc EXCEPT ![t] = "idle"]
  /\ UNCHANGED <<call, locks, pgvars, seqvars>>

NextFileConc ==
  \/ \E t \in Threads, rq \in FileConcRequests : FileIoCall(t, "WriteAt", rq)
  \/ \E t \in Threads, rq \in FileConcRequests : FileIoCall(t, "ReadAt", rq)
  \/ \E t \in Threads, len \in StreamLens : FileReadCall(t, len)
  \/ \E t \in Threads, op \in {"Flush", "Sync", "Close"} : ExclCall(t, op, 0)
  \/ \E t \in Threads, n \in FileConcTruncSizes : ExclCall(t, "Truncate", n)
  \/ \E t \in Threads : SizeCall(t)
  \/ \E t \in Threads : IoReadSize(t)
  \/ \E t \in Threads : RLock(t)
  \/ \E t \in Threads : IoCheckClosed(t)
  \/ \E t \in Threads : PioLock(t)
  \/ \E t \in Threads : PioRun(t)
  \/ \E t \in Threads : Return(t)
  \/ \E t \in Threads : LockRequest(t)
  \/ \E t \in Threads : LockAcquire(t)
  \/ \E t \in Threads : ExclRun(t)
  \/ \E t \in Threads : SizeRead(t)

SpecFileConc == InitFileConc /\ [][NextFileConc]_vars

\* ------------------------------------------------------------------------
\* Claims about the growable pager, one operation at a time (Spec)
\* ------------------------------------------------------------------------
\* the logical size S a correct growable pager has: the file's length when
\* the pager was made, raised by the writes
RefSize == ALen(expect)

\* the last operation asked for bytes inside [0, S)
InBounds == ret.off >= 0 /\ ret.off + ret.len <= RefSize

\* b[0:k] of the last read holds the reference bytes [off, off+k)
ReadBytesOk(k) ==
  k > 0 => Slice(ret.buf, 0, k) = Slice(expect, ret.off, ret.off + k)

\* C1: once the size is known, a ReadAt of a range below the size returns all
\* of it, and every byte is the one most recently written there, or the
\* file's original byte, or zero past the file's original end
C1_ReadReturnsLastWritten ==
  (ret.op = "ReadAt" /\ ret.size0 # -1 /\ InBounds)
    => /\ ret.err = "nil"
       /\ ret.n = ret.len
       /\ ReadBytesOk(ret.len)

AllClean == \A i \in DOMAIN shards : shards[i].dirty = {}

\* after a successful Flush nothing is dirty and the file holds every byte
\* written
FlushPersists ==
  (ret.op = "Flush" /\ ret.err = "nil")
    => /\ AllClean
       /\ \A w \in written :
            /\ w[2] <= ALen(file)
            /\ Slice(file, w[1], w[2]) = Slice(expect, w[1], w[2])

\* a pager made on the flushed file reads back what was written
FreshPagerReadsBack ==
  (ret.op = "ReadAt" /\ reopened /\ ret.size0 = -1 /\ InBounds)
    => /\ ret.err = "nil"
       /\ ret.n = ret.len
       /\ ReadBytesOk(ret.len)

\* C2: after Flush returns nil every dirty set is empty and the file holds the
\* last byte written at every offset written, so that what was written and
\* flushed is read back through a fresh pager
C2_FlushRoundTrip == FlushPersists /\ FreshPagerReadsBack

\* C3: ReadAt(b, off) with off >= 0 returns n = max(0, min(len(b), S - off)),
\* io.EOF exactly when off + len(b) > S, the bytes [off, off+n) in b[0:n], and
\* leaves the caller's buffer beyond b[0:n] alone
C3_ReadAtResult ==
  (ret.op = "ReadAt" /\ ret.off >= 0)
    => LET n == Max(0, Min(ret.len, RefSize - ret.off))
       IN  /\ ret.n = n
           /\ ret.err = IF ret.off + ret.len > RefSize THEN "EOF" ELSE "nil"
           /\ ReadBytesOk(n)
           /\ Drop(ret.buf, n) = Rep(ALen(ret.buf) - n, Untouched)

\* C4: once the size is known no ReadAt changes it; only a WriteAt that ends
\* past it raises it, to its end offset
C4_OnlyWritesGrowSize ==
  (ret.size0 # -1 /\ ret.op \in {"ReadAt", "WriteAt", "Flush"})
    => \/ size = ret.size0
       \/ /\ ret.op = "WriteAt"
          /\ ret.off + ret.len > ret.size0
          /\ size = ret.off + ret.len

\* C11: after a Flush that returned nil the backing file is no longer than
\* the larger of its length when the pager was made and the largest end
\* offset off + len(b) of a WriteAt
C11_FlushKeepsLength ==
  (ret.op = "Flush" /\ ret.err = "nil") => ALen(file) <= RefSize

\* ------------------------------------------------------------------------
\* Claims about the growable pager on a failing backing file (SpecFault)
\* ------------------------------------------------------------------------
\* the last operation made a call on the backing file that failed
CallFailed == \E i \in DOMAIN ret.calls : ret.calls[i] = fault

\* C13: a ReadAt or WriteAt during which a call on the backing file failed
\* (a page read, an eviction writeback or the Stat of the first access)
\* returns that error, and the failed call is the last it made on the file
C13_NoErrorSwallowed ==
  (ret.op \in {"ReadAt", "WriteAt"} /\ CallFailed)
    => /\ ret.err = "io"
       /\ ret.calls[Len(ret.calls)] = fault
       /\ \A i \in 1..(Len(ret.calls) - 1) : ret.calls[i] # fault

\* C17: in every state, also after an operation returned an error of the
\* backing file, every page number in a shard's dirty set is a key of the
\* shard's page map
C17_DirtyAreResident ==
  \A i \in DOMAIN shards : shards[i].dirty \subseteq DOMAIN shards[i].pages

RECURSIVE ListFrom(_, _, _)
\* the nodes threaded from p to the tail sentinel, following next, at most
\* fuel of them
ListFrom(nodes, p, fuel) ==
  IF p = TAIL \/ p = NIL \/ fuel = 0 THEN <<>>
  ELSE <<p>> \o ListFrom(nodes, nodes[p].next, fuel - 1)

\* the pages threaded between s.head and s.tail, most recently used first
Threaded(s) == ListFrom(s.nodes, s.nodes[HEAD].next, Len(s.nodes))

\* the map and the list of shard s, the shard of index i of n, agree
ShardOk(s, i, n, pgmx) ==
  IF ~s.init THEN s.pages = NoPages
  ELSE LET l == Threaded(s)
       IN  /\ {s.nodes[l[j]].num : j \in DOMAIN l} = DOMAIN s.pages
           /\ \A j1, j2 \in DOMAIN l :
                s.nodes[l[j1]].num = s.nodes[l[j2]].num => j1 = j2
           /\ \A k \in DOMAIN s.pages :
                /\ \E j \in DOMAIN l : l[j] = s.pages[k]
                /\ s.nodes[s.pages[k]].num = k
                /\ ShardOf(k, n) = i
           /\ \A j \in DOMAIN l :
                /\ s.nodes[s.nodes[l[j]].next].prev = l[j]
                /\ s.nodes[s.nodes[l[j]].prev].next = l[j]
           /\ s.nodes[s.nodes[HEAD].next].prev = HEAD
           /\ s.nodes[s.nodes[TAIL].prev].next = TAIL
           /\ Cardinality(DOMAIN s.pages) = pgmx
                => s.nodes[TAIL].prev \notin {NIL, HEAD, TAIL}

\* C19: in every state between two operations, also after one that failed
\* with an I/O error, the keys of each shard's page map are the page numbers
\* threaded in its LRU list, each once, each entry k maps to a page of number
\* k that belongs to the shard, prev and next are inverse of each other, and
\* the eviction candidate tail.prev of a full shard is not a sentinel
C19_ListAndMapAgree ==
  \A i \in DOMAIN shards :
    ShardOk(shards[i], i, Cardinality(DOMAIN shards), pgmax)

\* an operation has failed while writing back the page it evicted from the
\* full shard, which now holds one page less than its quota
C19_Witness ==
  /\ ret.op \in {"ReadAt", "WriteAt"}
  /\ ret.err = "io"
  /\ ret.calls = <<"WriteAt">>
  /\ Cardinality(DOMAIN shards[0].pages) = pgmax - 1

\* the step is a Flush
FlushStep == ret'.op = "Flush" /\ nops' = nops + 1

\* the pages of shard i the step has made clean
Cleaned(i) == shards[i].dirty \ shards'[i].dirty

\* the file after the step holds what Pager.write writes of page k of shard i
InFileAfter(i, k) ==
  LET end == WriteEnd(k, size, pgsize)
  IN  /\ k \in DOMAIN shards[i].pages
      /\ Slice(file', k * pgsize, k * pgsize + end)
           = Take(shards[i].nodes[shards[i].pages[k]].data, end)

\* a Flush that stopped at a writeback that failed: the pages it wrote back
\* before are clean and in the file, the failed call is the one after them,
\* and the pages still dirty, of which there is one at least, are resident;
\* no page and no list has changed
FlushStoppedAtFailure ==
  /\ \A i \in DOMAIN shards :
       /\ shards'[i].dirty \subseteq shards[i].dirty
       /\ shards'[i].pages = shards[i].pages
       /\ shards'[i].nodes = shards[i].nodes
       /\ shards'[i].dirty \subseteq DOMAIN shards'[i].pages
       /\ \A k \in Cleaned(i) : InFileAfter(i, k)
  /\ Len(ret'.calls)
       = Cardinality(UNION {{<<i, k>> : k \in Cleaned(i)} : i \in DOMAIN shards})
           + 1
  /\ \E i \in DOMAIN shards : shards'[i].dirty # {}
  /\ size' = size

\* C22: a Flush that returns the error of a writeback has stopped at it:
\* the pages written back before are clean, the failing page and the dirty
\* pages not visited are still dirty and resident with the same contents,
\* so that the next Flush has exactly them to write
C22_FlushStopsAtFailure ==
  [][(FlushStep /\ ret'.err = "io") => FlushStoppedAtFailure]_vars

\* the same, for a Flush that starts with every dirty page resident
FlushStopsAtFailureOfResident ==
  [][(FlushStep /\ ret'.err = "io" /\ C17_DirtyAreResident)
       => FlushStoppedAtFailure]_vars

\* a Flush has written back some pages, then failed
FlushFailedHalfway ==
  ret.op = "Flush" /\ ret.err = "io" /\ Len(ret.calls) > 1

\* ------------------------------------------------------------------------
\* Claims about the buffers of evicted pages (Spec)
\* ------------------------------------------------------------------------
\* offset o was written by a caller
Covered(o) == \E w \in written : w[1] <= o /\ o < w[2]

\* offset o lies past the end the backing file had when the pager was made
\* and no caller wrote it: the only byte a page can hold for it is zero
NeverStored(o) == o >= len0 /\ ~Covered(o)

\* C20: a page never shows a byte of the page its buffer was taken from: a
\* byte of a resident page below the size the writes have made, at an offset
\* that the backing file did not hold and that no caller wrote, is zero
C20_NoLeakedBytes ==
  \A i \in DOMAIN shards :
    \A k \in DOMAIN shards[i].pages :
      \A j \in 0..(pgsize - 1) :
        (k * pgsize + j < ALen(expect) /\ NeverStored(k * pgsize + j))
          => Slice(shards[i].nodes[shards[i].pages[k]].data, j, j + 1)
               = Rep(1, 0)

\* the reads of the backing file among the calls made
Reads(calls) == Cardinality({i \in DOMAIN calls : calls[i] = "ReadAt"})

\* the n bytes from off lie in one page
OnePage(off, n) ==
  n > 0 /\ off \div pgsize = (off + n - 1) \div pgsize

\* page k is in memory
Resident(k) ==
  k \in DOMAIN shards[ShardOf(k, Cardinality(DOMAIN shards))].pages

\* the pages of which the n bytes from off cover only a part
PartialPages(off, n) ==
  {k \in (off \div pgsize)..((off + n - 1) \div pgsize) :
     Min(off + n, (k + 1) * pgsize) - Max(off, k * pgsize) < pgsize}

\* the step is a ReadAt or a WriteAt that went through its pages
IoStep ==
  /\ nops' = nops + 1
  /\ ret'.op \in {"ReadAt", "WriteAt"}
  /\ ret'.err \in {"nil", "EOF"}

\* C23: an operation inside one page reads the backing file once if the page
\* is not in memory and the operation is a read or writes less than the
\* page, and not at all otherwise (a hit, or a whole page written); a write
\* over several pages reads at most the pages it covers in part, and an
\* operation on no byte reads nothing
C23_ReadsOnlyWhenNeeded ==
  [][IoStep =>
       /\ OnePage(ret'.off, ret'.n)
            => Reads(ret'.calls)
                 = (IF /\ ~Resident(ret'.off \div pgsize)
                       /\ (ret'.op = "ReadAt" \/ ret'.n < pgsize)
                    THEN 1 ELSE 0)
       /\ (ret'.op = "WriteAt" /\ ret'.n > 0)
            => Reads(ret'.calls)
                 <= Cardinality(PartialPages(ret'.off, ret'.n))
       /\ ret'.n = 0 => Reads(ret'.calls) = 0]_vars

\* the first operation of a pager has written the whole of page 2, which was
\* not in memory, without a read of the file
C23_Witness ==
  /\ ret.op = "WriteAt"
  /\ ret.err = "nil"
  /\ ret.size0 = -1
  /\ ret.off = 2 * pgsize
  /\ ret.n = pgsize
  /\ Reads(ret.calls) = 0
  /\ 2 \in shards[0].dirty

\* the byte the pager holds for offset o: that of the page if it is in
\* memory, that of the backing file if not, none past the end of the file
StoredByte(o) ==
  IF Resident(o \div pgsize)
  THEN LET s == shards[ShardOf(o \div pgsize, Cardinality(DOMAIN shards))]
       IN  Slice(s.nodes[s.pages[o \div pgsize]].data, o % pgsize,
                 (o % pgsize) + 1)
  ELSE IF o < ALen(file) THEN Slice(file, o, o + 1)
  ELSE <<>>

\* the byte held for offset o is the one of the last WriteAt that returned nil
\* there, or the one of a later WriteAt that failed after it had written it
\* (the k-th operation writes bytes of value k)
HoldsWrite(o) ==
  \E e, v \in 1..MaxFaultOps :
    /\ Slice(expect, o, o + 1) = Rep(1, e)
    /\ StoredByte(o) = Rep(1, v)
    /\ v >= e

\* C26: every byte written by a WriteAt that returned nil is held in a page
\* in memory or in the backing file, also after an operation failed on the
\* writeback of a page it evicted
C26_NoWriteLost ==
  \A w \in written : \A o \in w[1]..(w[2] - 1) : HoldsWrite(o)

\* ------------------------------------------------------------------------
\* Claims about the sizing of the growable pager (SpecSize)
\* ------------------------------------------------------------------------
\* the number of pages in the maps of all the shards: the entries <<i, k>>
\* of page k in the map of shard i
PagesHeld(shs) ==
  Cardinality(UNION {{<<i, k>> : k \in DOMAIN shs[i].pages} : i \in DOMAIN shs})

\* the memory held in page buffers
Memory == PagesHeld(shards) * pgsize

\* the bufferSize in effect: the default when none is given, and no less
\* than a page
EffectiveBufferSize == PagerBufferSize(cfg0.bufferSize, pgsize)

MaskProbes == {0, 1, 4095, 4096, 8192, 12288, 12289}

\* C15: pgsize is the smallest power of two >= pageSize, or 4096 when
\* pageSize <= 0, so that off & (pgsize - 1) = off mod pgsize, and the chunk
\* of a request at off has 0 <= pstart < pend <= pgsize
C15_PageSizeIsPowerOfTwo ==
  /\ pgsize = IF cfg0.pageSize <= 0 THEN defaultPageSize
              ELSE Pow2From(1, cfg0.pageSize)
  /\ \A off \in MaskProbes :
       /\ BitAnd(off, pgsize - 1) = off % pgsize
       /\ \A len \in {1, pgsize} :
            LET pstart == BitAnd(off, pgsize - 1)
                pend   == Min(pstart + len, pgsize)
            IN  0 <= pstart /\ pstart < pend /\ pend <= pgsize

\* ------------------------------------------------------------------------
\* Claims about the fixed-size variant, one operation at a time (SpecFile)
\* ------------------------------------------------------------------------
RECURSIVE ViewFrom(_, _, _, _)
\* the bytes the pager holds for the caller from page num up to sz: those of
\* the resident page, else those of the backing file
ViewFrom(fl, sz, shs, num) ==
  IF num * pageSize >= sz THEN <<>>
  ELSE LET s     == shs[ShardOf(num, Cardinality(DOMAIN shs))]
           lo    == num * pageSize
           hi    == Min(lo + pageSize, sz)
           bytes == IF num \in DOMAIN s.pages
                    THEN Take(s.nodes[s.pages[num]].data, hi - lo)
                    ELSE Slice(Cat(fl, Rep(hi - ALen(fl), 0)), lo, hi)
       IN  Cat(bytes, ViewFrom(fl, sz, shs, num + 1))

View(fl, sz, shs) == ViewFrom(fl, sz, shs, 0)

\* the pages resident, and the pages dirty, in any shard
ResidentPages(shs) == UNION {DOMAIN shs[i].pages : i \in DOMAIN shs}
DirtyPages(shs) == UNION {shs[i].dirty : i \in DOMAIN shs}

\* the pages of S that lie wholly at or beyond sz
Beyond(S, sz) == {k \in S : k * pageSize >= sz}

\* the operations of File that call bfile.WriteAt: WriteAt, Write and, in
\* this code, ReadAt
CallsBfileWriteAt(op) == op \in {"WriteAt", "Write", "ReadAt"}

C6_FileReadAtIsPureRead ==
  [][(/\ ret'.op = "ReadAt"
      /\ ~closed
      /\ fault = "none"
      /\ ret'.err # "panic"
      /\ ret'.off >= 0)
     => LET n == Max(0, Min(ret'.len, size - ret'.off))
        IN  /\ ret'.n = n
            /\ ret'.err = IF ret'.off + ret'.len > size THEN "EOF" ELSE "nil"
            /\ Take(ret'.buf, n)
                 = Slice(View(file, size, shards), ret'.off, ret'.off + n)
            /\ View(file', size', shards') = View(file, size, shards)
            /\ DirtyPages(shards') \subseteq DirtyPages(shards)
            /\ DirtyPages(shards') = DirtyPages(shards) => file' = file]_vars

\* the operations C7 names
ClosableOps == {"ReadAt", "WriteAt", "Read", "Write", "Flush", "Sync", "Close"}

\* an operation on a closed bfile left the pages, the backing file, the size
\* and the offsets alone and made no call on the backing file
NoAccess ==
  /\ ret'.calls = <<>>
  /\ ret'.n = 0
  /\ UNCHANGED <<file, osclosed, size, shards, offs>>

\* C7 as stated: once closed, the bfile stays closed and every ReadAt,
\* WriteAt, Read, Write, Flush, Sync and Close through any File returns
\* os.ErrClosed, for every argument, without any access
C7_ClosedForEveryArgument ==
  [][closed
     => /\ closed'
        /\ ret'.op \in ClosableOps => ret'.err = "closed" /\ NoAccess]_vars

\* C7, amended: ... returns os.ErrClosed for every offset >= 0, and the
\* negative-offset error for a negative offset, without any access
C7_ClosedStaysClosed ==
  [][closed
     => /\ closed'
        /\ ret'.op \in ClosableOps
             => /\ ret'.err = IF ret'.off < 0 THEN "negative offset"
                              ELSE "closed"
                /\ NoAccess]_vars

\* after a Close, a Read through a clone has returned os.ErrClosed
C7_Witness ==
  /\ closed
  /\ ret.op = "Read"
  /\ ret.h = 2
  /\ ret.err = "closed"

Truncated == size # len0

\* C12: once Truncate(n) has succeeded no writeback faults, none writes at or
\* beyond n, so that the backing file stays n bytes long, and a read that
\* ends past n returns io.EOF
C12_WritebackAfterTruncate ==
  Truncated
    => /\ ret.err # "panic"
       /\ ALen(file) <= size
       /\ (/\ ret.op \in {"ReadAt", "Read"}
           /\ ret.off >= 0
           /\ ret.off + ret.len > size
           /\ ret.err \notin {"closed", "io"}) => ret.err = "EOF"

\* ------------------------------------------------------------------------
\* Claims about the locking of both variants (SpecConc, SpecFileConc)
\* ------------------------------------------------------------------------
\* an access to field f ("size", "closed", or "shard" i for the maps, list
\* and buffers of shard i), reading it (w = FALSE) or writing it
Acc(f, i, w) == [field |-> f, shard |-> i, write |-> w]

\* the accesses of a flush to all the shards
ShardAccess == {Acc("shard", i, TRUE) : i \in DOMAIN shards}

\* the fields the step thread t makes next may read or write.  A step that
\* acquires a lock accesses none.  pio accesses its shard, and f.size when it
\* writes an evicted page back; flush accesses every shard and f.size.
Access(t) ==
  CASE pc[t] \in {"check", "clamp", "fsize", "sizeread"} ->
         {Acc("size", 0, FALSE)}
    [] pc[t] = "incr" -> {Acc("size", 0, TRUE)}
    [] pc[t] = "fclosed" -> {Acc("closed", 0, FALSE)}
    [] pc[t] = "pio" -> {Acc("size", 0, FALSE), Acc("shard", CallShard(t), TRUE)}
    [] pc[t] = "flush" -> {Acc("size", 0, FALSE)} \cup ShardAccess
    [] pc[t] = "excl" ->
         CASE call[t].op = "Truncate" -> {Acc("size", 0, TRUE)}
           [] call[t].op = "Close" ->
                {Acc("closed", 0, TRUE), Acc("size", 0, FALSE)} \cup ShardAccess
           [] OTHER ->
                {Acc("closed", 0, FALSE), Acc("size", 0, FALSE)} \cup ShardAccess
    [] OTHER -> {}

\* thread t holds f.mu exclusively, or at least shared
HoldsLock(t) == locks.writer = t
HoldsRLock(t) == t \in locks.readers \/ locks.writer = t

\* every access a thread is about to make is made under the lock the field
\* asks for
LockDiscipline ==
  \A t \in Threads : \A a \in Access(t) :
    IF a.field = "shard" THEN locks.shard[a.shard] = t \/ HoldsLock(t)
    ELSE IF a.write THEN HoldsLock(t)
    ELSE HoldsRLock(t)

\* no two threads are about to access one field, one of them writing it
NoRace ==
  \A t, u \in Threads :
    t # u => \A a \in Access(t), b \in Access(u) :
               (a.field = b.field /\ a.shard = b.shard)
                 => (~a.write /\ ~b.write)

\* C9: every read of size or closed is made holding the pager lock, every
\* write of them holding it exclusively, every access to a shard holding its
\* mutex or the exclusive pager lock, and no two threads access one field
\* at once with one of them writing
C9_ThreadSafe == LockDiscipline /\ NoRace

\* ------------------------------------------------------------------------
\* Claims about the growable pager with threads (SpecConc)
\* ------------------------------------------------------------------------
\* the size sz stands for: the backing file's length while it is unknown
Known(sz) == IF sz = -1 THEN len0 ELSE sz

\* the largest element of a non-empty set of integers
SetMax(S) == CHOOSE x \in S : \A y \in S : y <= x

\* every thread has returned from every call it made
Quiescent == \A t \in Threads : pc[t] = "idle"

\* the calls of WriteAt with off >= 0 that have returned
WritesDone == {d \in done : d.op = "WriteAt" /\ d.off >= 0}

\* the size the pager must have once the calls of WritesDone have returned
\* and no other call was made
SizeAfterWrites ==
  IF WritesDone = {} THEN size = -1
  ELSE size = SetMax({len0} \cup {d.off + d.len : d \in WritesDone})

\* C10: no step lowers size; a WriteAt that has returned has left size at or
\* above its end offset; and when all calls have returned and all were
\* WriteAt, size is the maximum of the file's length and their end offsets
C10_SizeIsMaxOfEnds ==
  [][/\ Known(size') >= Known(size)
     /\ \A d \in WritesDone' : size' >= d.off + d.len
     /\ (Quiescent' /\ \A d \in done' : d.op = "WriteAt") => SizeAfterWrites']_vars

\* two threads have each returned from a WriteAt that ended past the size it
\* saw, both saw the same size, and the two end at different offsets
C10_Witness ==
  /\ Quiescent
  /\ \E d1, d2 \in WritesDone :
       /\ d1.t # d2.t
       /\ d1.seen = d2.seen
       /\ d1.off + d1.len > Known(d1.seen)
       /\ d2.off + d2.len > Known(d2.seen)
       /\ d1.off + d1.len # d2.off + d2.len

\* thread t waits for the pager lock f.mu
WaitsForPagerLock(t) ==
  pc[t] \in {"rlock", "rlock2", "incr_lock", "incr_wait", "lock", "lock_wait"}

\* thread t holds the mutex of a shard
HoldsShard(t) == \E i \in DOMAIN locks.shard : locks.shard[i] = t

\* no thread waits for the pager lock while it holds the mutex of a shard
LockOrder == \A t \in Threads : ~(WaitsForPagerLock(t) /\ HoldsShard(t))

\* C25: no thread waits for the pager lock holding a shard's mutex, and
\* every call of ReadAt, WriteAt or Flush that a thread has made returns in
\* the end
C25_EveryCallReturns ==
  /\ []LockOrder
  /\ \A t \in Threads : (pc[t] # "idle") ~> (pc[t] = "idle")

\* the same, for the calls made in a program that does not panic
ReturnsUnlessPanic ==
  /\ []LockOrder
  /\ \A t \in Threads : (pc[t] # "idle") ~> (pc[t] = "idle" \/ Halted)

\* ------------------------------------------------------------------------
\* Claims about eviction with threads (SpecEvict)
\* ------------------------------------------------------------------------
\* the keys of the page map of shard i of shs
Keys(shs, i) == DOMAIN shs[i].pages

\* C18: each shard holds at most pgmax pages and the pager at most pgmax
\* times nshards; a step that changes the page map of a full shard takes
\* exactly one page out of it and puts exactly one page in
C18_ShardWithinQuota ==
  [][/\ \A i \in DOMAIN shards' : Cardinality(Keys(shards', i)) <= pgmax
     /\ PagesHeld(shards') <= pgmax * Cardinality(DOMAIN shards')
     /\ \A i \in DOMAIN shards :
          (Cardinality(Keys(shards, i)) = pgmax
             /\ Keys(shards', i) # Keys(shards, i))
            => /\ Cardinality(Keys(shards, i) \ Keys(shards', i)) = 1
               /\ Cardinality(Keys(shards', i) \ Keys(shards, i)) = 1]_vars

\* a WriteAt of the four pages 0..3 has returned, another thread has made a
\* call, the shard is full, and one of the four pages has been evicted
C18_Witness ==
  /\ \E d \in done : d.op = "WriteAt" /\ d.n = 8
  /\ \E t, u \in Threads : t # u /\ call[t].k > 0 /\ call[u].k > 0
  /\ Cardinality(Keys(shards, 0)) = pgmax
  /\ \E k \in 0..3 : k \notin Keys(shards, 0)

\* the page numbers of shard s in the order of its list, the page next to
\* s.head first
PageOrder(s) ==
  IF ~s.init THEN <<>>
  ELSE [j \in DOMAIN Threaded(s) |-> s.nodes[Threaded(s)[j]].num]

\* the sequence o without k
Without(o, k) == SelectSeq(o, LAMBDA x : x # k)

\* the order of a shard's list after an access of page k that succeeded, o
\* being the order before it
OrderAfter(o, k, quota) ==
  <<k>> \o (IF \E j \in DOMAIN o : o[j] = k THEN Without(o, k)
           ELSE IF Len(o) = quota THEN SubSeq(o, 1, Len(o) - 1)
           ELSE o)

\* the pio of thread t, on page k of shard i, with o the order of the list
\* before it, has evicted the least recently used page: a dirty victim is in
\* the file and clean, and nothing else was written to the file
EvictedLru(i, k, o) ==
  IF (\E j \in DOMAIN o : o[j] = k) \/ Len(o) < pgmax
  THEN file' = file
  ELSE LET v == o[Len(o)]
           d == shards[i].nodes[shards[i].pages[v]].data
       IN  /\ v \notin DOMAIN shards'[i].pages
           /\ v \notin shards'[i].dirty
           /\ IF v \in shards[i].dirty
              THEN file' = OsWriteAt(file, Take(d, WriteEnd(v, size, pgsize)),
                                     v * pgsize)
              ELSE file' = file

\* C21: every pio that succeeds moves the page it accesses next to the head
\* of its shard's list and leaves the other pages in their order, so that
\* the list is ordered by last access; on a miss in a full shard the page
\* that leaves is the last of the list, it is written back if dirty, and no
\* other pio writes to the file
C21_EvictsLeastRecentlyUsed ==
  [][\A t \in Threads :
       (pc[t] = "pio" /\ pc'[t] = "loop")
         => /\ PageOrder(shards'[CallShard(t)])
                 = OrderAfter(PageOrder(shards[CallShard(t)]),
                              call[t].off \div pgsize, pgmax)
            /\ EvictedLru(CallShard(t), call[t].off \div pgsize,
                          PageOrder(shards[CallShard(t)]))]_vars

\* pages 0 to 3 were written, page 1 was accessed again, and the miss on
\* page 4 has evicted page 0 and written it back
C21_Witness ==
  /\ PageOrder(shards[0]) = <<4, 1, 3, 2>>
  /\ shards[0].dirty \subseteq {1, 2, 3, 4}
  /\ Slice(file, 0, 2) # Rep(2, 0)
  /\ ALen(file) >= 2

\* ------------------------------------------------------------------------
\* Claims about threads working on one page (SpecCopy)
\* ------------------------------------------------------------------------
\* the writes <<off, len, value>> that have returned
DoneWrites ==
  {<<d.off, d.len, d.t>> : d \in {x \in done : x.op = "WriteAt" /\ x.n > 0}}

\* the writes that have been called, returned or not
CalledWrites ==
  DoneWrites \cup {<<call[t].off0, call[t].len, t>> :
                     t \in {u \in Threads : pc[u] # "idle" /\ call[u].write}}

\* the first page of a file holding e, with zeros past the end of e
PageOf(e) ==
  IF ALen(e) >= pgsize THEN Take(e, pgsize)
  ELSE Cat(e, Rep(pgsize - ALen(e), 0))

RECURSIVE AnyOrder(_, _)
\* what a file holding e can hold once some of the writes of S were applied
\* one after the other, in any order
AnyOrder(e, S) ==
  {e} \cup UNION {AnyOrder(RefWrite(e, Rep(w[2], w[3]), w[1]), S \ {w}) : w \in S}

RECURSIVE AllInOrder(_, _)
\* what a file holding e can hold once all the writes of S were applied one
\* after the other, in any order
AllInOrder(e, S) ==
  IF S = {} THEN {e}
  ELSE UNION {AllInOrder(RefWrite(e, Rep(w[2], w[3]), w[1]), S \ {w}) : w \in S}

\* what page 0 holds: its buffer if it is in memory, the file if not
PageNow ==
  IF shards[0].init /\ 0 \in DOMAIN shards[0].pages
  THEN shards[0].nodes[shards[0].pages[0]].data
  ELSE PageOf(file)

\* C24: with threads reading and writing inside one page, the bytes a ReadAt
\* returns are those the page holds before or after each of the writes made
\* so far, never a mix of the two sides of a write, and once every call has
\* returned the page holds what the writes give when applied one after the
\* other in some order
C24_NoTornPage ==
  /\ \A d \in done :
       (d.op = "ReadAt" /\ d.n > 0)
         => \E e \in AnyOrder(expect, CalledWrites) :
              Take(d.buf, d.n) = Slice(PageOf(e), d.off, d.off + d.n)
  /\ Quiescent
       => \E e \in AllInOrder(expect, DoneWrites) : PageNow = PageOf(e)

\* a ReadAt of the whole page has returned the bytes of a WriteAt of the
\* whole page by the other thread that has not returned yet
C24_Witness ==
  \E d \in done :
    /\ d.op = "ReadAt"
    /\ d.n = 2
    /\ \E u \in Threads \ {d.t} :
         /\ pc[u] # "idle"
         /\ call[u].write
         /\ call[u].len = 2
         /\ call[u].k = 1
         /\ Take(d.buf, 2) = Rep(2, u)

\* ------------------------------------------------------------------------
\* Claims about a Stream shared by threads (SpecStream)
\* ------------------------------------------------------------------------
RECURSIVE SumN(_)
\* the sum of the counts returned by the calls of S
SumN(S) ==
  IF S = {} THEN 0
  ELSE LET d == CHOOSE x \in S : TRUE IN d.n + SumN(S \ {d})

\* C16: every Read or Write of the Stream that has returned has added the
\* count it returned to off, so that off is the initial offset plus the sum
\* of the counts returned; and a call that started while no other call was
\* in progress started where the calls before it ended
C16_StreamOffsetIsSum ==
  [][/\ offs'[1] = cfg0.off + SumN(done')
     /\ \A t \in Threads :
          (pc[t] = "idle" /\ pc'[t] = "rlock" /\ Quiescent)
            => call'[t].off0 = cfg0.off + SumN(done)]_vars

\* two threads have each returned from a call that transferred bytes, both
\* calls having loaded the same offset, and a third call has returned as well
C16_Witness ==
  /\ Quiescent
  /\ Cardinality(done) = 3
  /\ \E d1, d2 \in done :
       /\ d1.t # d2.t
       /\ d1.off = d2.off
       /\ d1.n > 0
       /\ d2.n > 0

====
